---- MODULE Spec2Model ----
(***************************************************************************)
(* Google GenAI key rotation and request funnel of SmolRouter.             *)
(*                                                                         *)
(* The model follows smolrouter/google_genai_provider.py (key selection,   *)
(* post-request bookkeeping, generate_completion), smolrouter/database.py  *)
(* (ApiKeyQuota) and smolrouter/rate_limiter.py (GoogleGenAIRequestFunnel).*)
(*                                                                         *)
(* Scheduling: one asyncio event loop.  A coroutine runs without           *)
(* interruption between two awaits that really suspend, so every action    *)
(* below is the code between two suspension points of generate_completion: *)
(* the sleep of _wait_for_window_slot, the wait on the semaphore and the   *)
(* await of the upstream call (asyncio.to_thread).                         *)
(*                                                                         *)
(* Time is counted in clock units, UnitsPerSecond of them to a second, and *)
(* the clock only shows the instants of Instants; it does not move within  *)
(* an action.  The funnel's statistic _total_waits is only logged and is   *)
(* left out.                                                               *)
(***************************************************************************)
EXTENDS Integers, Sequences, FiniteSets, TLC

(***************************************************************************)
(* Bounds of the model.                                                    *)
(***************************************************************************)
NumKeys == 2
NumModels == 2
NumRequests == 2
MaxTokens == 1
UnitsPerSecond == 2
MaxMessages == 2

(***************************************************************************)
(* Configuration of the provider and of the funnel (constructor arguments, *)
(* chosen small here).                                                     *)
(***************************************************************************)
max_requests_per_day == 1
max_concurrent == 1
max_requests_per_window == 1
window_minutes == 30

(***************************************************************************)
(* Program constants.                                                      *)
(***************************************************************************)
SecondsPerDay == 86400
SecondsPerMinute == 60
CooldownSeconds == 3600
MaxErrorCount == 20
ResetErrorDecay == 5
MaxSleepSeconds == 5
SleepBufferUnits == 1
DelimiterSkip == 4
StatusBadRequest == 400
StatusBadGateway == 502
StatusGatewayTimeout == 504
StatusInternalError == 500

Keys == 1..NumKeys
Models == 1..NumModels
Requests == 1..NumRequests
Tokens == 0..MaxTokens
None == -1

UnitsPerDay == SecondsPerDay * UnitsPerSecond
CooldownUnits == CooldownSeconds * UnitsPerSecond
window_seconds == window_minutes * SecondsPerMinute
WindowUnits == window_seconds * UnitsPerSecond

(***************************************************************************)
(* The clock.  Day 0 is "yesterday"; the instants lie around the midnight  *)
(* between day 1 and day 2, one of them in the last second of day 1.       *)
(***************************************************************************)
Midnight == 2 * UnitsPerDay
Instants ==
    { Midnight - CooldownUnits, Midnight - WindowUnits, Midnight - 1,
      Midnight, Midnight + WindowUnits, Midnight + CooldownUnits }
StartTime == Midnight - CooldownUnits

Min(a, b) == IF a <= b THEN a ELSE b
Max(a, b) == IF a >= b THEN a ELSE b

\* _get_pacific_date: the Pacific calendar date of an instant.
PacificDate(t) == t \div UnitsPerDay
Dates == { PacificDate(t) : t \in Instants }

\* int((tomorrow_pacific - now_pacific).total_seconds())
SecondsUntilReset(t) == ((PacificDate(t) + 1) * UnitsPerDay - t) \div UnitsPerSecond

\* timedelta.seconds: the whole seconds of a time difference, days left out.
TimedeltaSeconds(d) == (d % UnitsPerDay) \div UnitsPerSecond

(***************************************************************************)
(* Error texts built by generate_completion, one per class of message.     *)
(***************************************************************************)
ErrPermissionDenied == "Google GenAI permission denied: 403"
ErrQuotaExhausted == "Google GenAI quota exhausted: 429"
ErrOther == "Google GenAI error: 500"
ErrorTexts == { ErrPermissionDenied, ErrQuotaExhausted, ErrOther }
NoError == "None"

_is_invalid_key_error(error) == error = ErrPermissionDenied
_is_quota_exhausted_error(error) == error = ErrQuotaExhausted

(***************************************************************************)
(* ApiKeyQuota rows.  The table is a function of (key, model); a row that  *)
(* is not in the table has exists = FALSE.                                 *)
(***************************************************************************)
AbsentRow ==
    [ exists |-> FALSE, requests_today |-> 0, tokens_today |-> 0,
      last_reset_date |-> 0, quota_exhausted_at |-> None,
      invalid_key |-> FALSE, error_count |-> 0, last_error |-> NoError ]

\* get_or_create's defaults for a new row.
NewRow(pacific_date) ==
    [ AbsentRow EXCEPT !.exists = TRUE, !.last_reset_date = pacific_date ]

\* The reset of get_or_create_quota when the date changed.
ResetRowZeroErrors(row, pacific_date) ==
    [ row EXCEPT !.requests_today = 0, !.tokens_today = 0,
                 !.quota_exhausted_at = None,
                 !.last_reset_date = pacific_date,
                 !.error_count = 0 ]
ResetRowKeepsCounters(row, pacific_date) ==
    [ row EXCEPT !.quota_exhausted_at = None,
                 !.last_reset_date = pacific_date,
                 !.error_count = Max(0, row.error_count - ResetErrorDecay) ]
ResetRowDropsLastError(row, pacific_date) ==
    [ row EXCEPT !.requests_today = 0, !.tokens_today = 0,
                 !.quota_exhausted_at = None,
                 !.last_reset_date = pacific_date,
                 !.error_count = Max(0, row.error_count - ResetErrorDecay),
                 !.last_error = NoError ]
ResetRow(row, pacific_date) ==
    [ row EXCEPT !.requests_today = 0, !.tokens_today = 0,
                 !.quota_exhausted_at = None,
                 !.last_reset_date = pacific_date,
                 !.error_count = Max(0, row.error_count - ResetErrorDecay) ]

\* ApiKeyQuota.get_or_create_quota: the row as returned (and stored).
get_or_create_quota(row, pacific_date) ==
    LET quota == IF row.exists THEN row ELSE NewRow(pacific_date)
    IN  IF quota.last_reset_date # pacific_date
        THEN ResetRow(quota, pacific_date)
        ELSE quota

\* ApiKeyQuota.mark_request_success
mark_request_success_stale_copy(row, tokens) ==
    [ row EXCEPT !.requests_today = 1,
                 !.tokens_today = tokens,
                 !.error_count = Max(0, @ - 1) ]
mark_request_success_no_floor(row, tokens) ==
    [ row EXCEPT !.requests_today = @ + 1,
                 !.tokens_today = @ + tokens,
                 !.error_count = @ - 1 ]
mark_request_success(row, tokens) ==
    [ row EXCEPT !.requests_today = @ + 1,
                 !.tokens_today = @ + tokens,
                 !.error_count = Max(0, @ - 1) ]

\* ApiKeyQuota.mark_request_failure
mark_request_failure(row, error, quota_exhausted, t) ==
    [ row EXCEPT !.error_count = @ + 1,
                 !.last_error = error,
                 !.quota_exhausted_at = IF quota_exhausted THEN t ELSE @ ]

(***************************************************************************)
(* _select_best_api_key.                                                   *)
(***************************************************************************)
\* actual_requests_today: the stored count, or 0 when the row was not reset today.
actual_requests_today(quota, pacific_date) ==
    IF quota.last_reset_date = pacific_date THEN quota.requests_today ELSE 0

\* The check of the recent-429 cooldown.
RecentQuotaErrorNever(quota, t) == FALSE
RecentQuotaError(quota, t) ==
    /\ quota.last_error # NoError
    /\ _is_quota_exhausted_error(quota.last_error)
    /\ quota.last_reset_date = PacificDate(t)
    /\ quota.quota_exhausted_at # None
    /\ TimedeltaSeconds(t - quota.quota_exhausted_at) < CooldownSeconds

\* The daily-limit check.
DailyLimitReachedOffByOne(actual) == actual > max_requests_per_day
DailyLimitReached(actual) == actual >= max_requests_per_day

\* The error-count check: if quota.error_count > 20.
TooManyErrorsLax(quota) == quota.error_count > MaxErrorCount + 1
TooManyErrors(quota) == quota.error_count > MaxErrorCount

\* What the loop body does with one key, in the order of its checks.
KeyClass(quota, t) ==
    IF quota.invalid_key THEN "invalid"
    ELSE IF DailyLimitReached(actual_requests_today(quota, PacificDate(t)))
         THEN "exhausted"
    ELSE IF TooManyErrors(quota) THEN "error_prone"
    ELSE IF RecentQuotaError(quota, t) THEN "recent_quota_error"
    ELSE "available"

\* The sort key of available_keys.sort: (request count, key).
SortKeyLessCountOnly(a, b) == a[2] < b[2]
SortKeyLess(a, b) ==
    \/ a[2] < b[2]
    \/ a[2] = b[2] /\ a[1] < b[1]

\* list.sort is stable: an entry goes behind the entries that are not greater.
RECURSIVE InsertSorted(_, _)
InsertSorted(sorted, x) ==
    IF sorted = << >> THEN << x >>
    ELSE IF SortKeyLess(x, Head(sorted)) THEN << x >> \o sorted
    ELSE << Head(sorted) >> \o InsertSorted(Tail(sorted), x)

RECURSIVE SortAvailable(_)
SortAvailable(seq) ==
    IF seq = << >> THEN << >>
    ELSE InsertSorted(SortAvailable(SubSeq(seq, 1, Len(seq) - 1)), seq[Len(seq)])

\* The keys of one class, in the order of config.api_keys.
RECURSIVE KeysOfClass(_, _, _, _, _)
KeysOfClass(keys, quotas, m, t, class) ==
    IF keys = << >> THEN << >>
    ELSE LET rest == KeysOfClass(Tail(keys), quotas, m, t, class)
         IN  IF KeyClass(quotas[Head(keys), m], t) = class
             THEN << Head(keys) >> \o rest
             ELSE rest

\* The table after _get_quota_record ran for every configured key.
QuotasAfterFetch(quotas, keys, m, t) ==
    [ km \in Keys \X Models |->
        IF km[2] = m /\ \E i \in 1..Len(keys) : keys[i] = km[1]
        THEN get_or_create_quota(quotas[km], PacificDate(t))
        ELSE quotas[km] ]

RECURSIVE WithCounts(_, _, _, _)
WithCounts(keys, quotas, m, t) ==
    IF keys = << >> THEN << >>
    ELSE << << Head(keys),
               actual_requests_today(quotas[Head(keys), m], PacificDate(t)) >> >>
         \o WithCounts(Tail(keys), quotas, m, t)

\* The outcome of _select_best_api_key(m) at instant t: the key returned
\* (None when it raises ResourceExhausted), the retry delay it raises with,
\* its local lists and the table it leaves behind.
_select_best_api_key(quotas, keys, m, t) ==
    LET fetched == QuotasAfterFetch(quotas, keys, m, t)
        available_keys ==
            SortAvailable(WithCounts(KeysOfClass(keys, fetched, m, t, "available"),
                                     fetched, m, t))
    IN  [ best_key |-> IF available_keys = << >> THEN None ELSE available_keys[1][1],
          retry_after_seconds |->
              IF available_keys = << >> THEN SecondsUntilReset(t) ELSE None,
          available_keys |-> available_keys,
          exhausted_keys |-> KeysOfClass(keys, fetched, m, t, "exhausted"),
          error_prone_keys |-> KeysOfClass(keys, fetched, m, t, "error_prone"),
          quotas |-> fetched ]

(***************************************************************************)
(* _update_api_key_stats: the table after the bookkeeping of one request.  *)
(***************************************************************************)
\* ApiKeyQuota.update(invalid_key=True).where(key hash, provider): every row
\* of the key that is in the table.
MarkInvalid(quotas, k, m) ==
    [ km \in Keys \X Models |->
        IF km[1] = k /\ quotas[km].exists
        THEN [ quotas[km] EXCEPT !.invalid_key = TRUE ]
        ELSE quotas[km] ]

_update_api_key_stats(quotas, k, m, success, tokens, error, t) ==
    LET quota == get_or_create_quota(quotas[k, m], PacificDate(t))
        fetched == [ quotas EXCEPT ![k, m] = quota ]
    IN  IF success
        THEN [ fetched EXCEPT ![k, m] = mark_request_success(quota, tokens) ]
        ELSE IF _is_invalid_key_error(error)
             THEN MarkInvalid(fetched, k, m)
        ELSE IF _is_quota_exhausted_error(error)
             THEN [ fetched EXCEPT ![k, m] = mark_request_failure(quota, error, TRUE, t) ]
        ELSE [ fetched EXCEPT ![k, m] = mark_request_failure(quota, error, FALSE, t) ]

(***************************************************************************)
(* State.                                                                  *)
(***************************************************************************)
VARIABLES
    now,                 \* the clock (time.time(), datetime.now)
    api_keys,            \* config.api_keys, in configured order
    quotas,              \* the ApiKeyQuota table
    enabled,             \* funnel: rate limiting enabled
    semaphore,           \* funnel: value of _semaphore
    active_count,        \* funnel: _active_count
    total_requests,      \* funnel: _total_requests
    request_timestamps,  \* funnel: _request_timestamps
    pc,                  \* where each completion request stands
    model,               \* model_name of each request
    api_key,             \* api_key of each request
    result,              \* how each request ended
    retry_after,         \* retry_after_seconds of the error a request raised
    wake_at,             \* end of the sleep of a request waiting for the window
    calls,               \* history: upstream calls per key, model and date
    grants,              \* history: instants of the window slots granted
    invalid_recorded,    \* history: keys with a recorded invalid-key failure
    last_failure,        \* history: latest recorded failure per key and model
    acquired,            \* history: acquire_slot calls that returned, per request
    released,            \* history: release_slot calls, per request
    tally,               \* history: successful completions per key and model on
                         \* the latest date one of them ended, and their tokens
    write_failed,        \* history: keys and models of the records a write failed for
    dialect,             \* stream: "openai" (proxy_request) or "ollama" (proxy_ollama_request)
    upstream_messages,   \* stream: the SSE messages upstream sends, by their data
    delivered,           \* stream: characters of the upstream stream handed over so far
    buffer,              \* stream: the generator's buffer
    yielded,             \* stream: what the generator yielded to the client, in order
    generator,           \* stream: "running", "returned" or "exhausted"
    path,                \* handler: the completion endpoint of the request
    payload,             \* handler: the request body
    DISABLE_THINKING,    \* handler: the feature flag of that name
    handler,             \* handler: "received", "awaiting_upstream" or "done"
    upstream_outcome,    \* handler: how the upstream call ended
    response,            \* handler: the response the handler returned
    raised,              \* handler: the exception that left the handler
    STRIP_THINKING,      \* handler: the feature flag of that name
    steps,               \* handler: history, the transformation steps carried out
    forwarded,           \* handler: history, the payload sent upstream
    input_text,          \* stripper: the text first given to strip_think_chain_from_text
    passes,              \* stripper: the results of its successive applications
    MODEL_MAP,           \* rewriter: the mapping table, in the order of its entries
    requested,           \* rewriter: the model name given to rewrite_model
    rewritten,           \* rewriter: what rewrite_model returned or raised
    config_api_key,      \* adapter: config.api_key of the OpenAI provider ("" if unset)
    client_headers,      \* adapter: the client's headers, as (name, value) pairs
    adapter,             \* adapter: "idle", "called", "posting" or "done"
    sent_headers,        \* adapter: the headers of the request sent upstream
    post_outcome,        \* adapter: how the upstream call ended
    completion,          \* adapter: what generate_completion returned or raised
    UPSTREAM_URL,        \* startup: the environment variable of that name, by its form
    providers_config,    \* startup: the configured providers, in their order
    startup,             \* startup: "validating", "creating_providers", "serving" or "exited"
    providers,           \* startup: the providers the factory created
    cache_variant,       \* cache: "inmemory" (InMemoryModelCache) or "noop" (NoOpModelCache)
    cache_now,           \* cache: the clock (time.time())
    cache_entries,       \* cache: the entry of each provider
    cache_got,           \* cache: the latest get_cached_models and what it returned
    cache_history,       \* cache: history, the latest cache_models of each provider
    caller,              \* funnel over time: where each caller of acquire_slot stands
    sleep_left,          \* funnel over time: what is left of each caller's asyncio.sleep
    timestamp_ages,      \* funnel over time: now - t for each t of _request_timestamps
    permits,             \* funnel over time: the value of the semaphore
    content_deltas,      \* deltas: the upstream content, as the deltas it is streamed in
    streamed,            \* deltas: the delta contents the streaming path delivered
    non_streamed,        \* deltas: the content of the non-streamed response
    stream_path,         \* connection: the handler, "openai" or "ollama"
    handler_at,          \* connection: "idle", "connecting", "in_stream_context" or "returned"
    upstream_connection, \* connection: "none", "open" or "closed"
    upstream_chunks,     \* connection: the chunks the upstream sends in all
    upstream_sent,       \* connection: the chunks the upstream has sent so far
    body_iterator,       \* connection: the generator, as the server iterates it
    chunks_forwarded,    \* connection: the chunks the generator has read and handled
    client_connection    \* connection: "connected" or "disconnected"

configVars == << api_keys, enabled >>
funnelVars == << semaphore, active_count, total_requests, request_timestamps >>
requestVars == << pc, model, api_key, result, retry_after, wake_at >>
historyVars ==
    << calls, grants, invalid_recorded, last_failure, acquired, released, tally,
       write_failed >>
quotaVars == << now, configVars, quotas, funnelVars, requestVars, historyVars >>
streamVars == << dialect, upstream_messages, delivered, buffer, yielded, generator >>
proxyVars ==
    << path, payload, DISABLE_THINKING, handler, upstream_outcome, response, raised,
       STRIP_THINKING, steps, forwarded >>
stripVars == << input_text, passes >>
rewriteVars == << MODEL_MAP, requested, rewritten >>
adapterVars ==
    << config_api_key, client_headers, adapter, sent_headers, post_outcome, completion >>
startupVars == << UPSTREAM_URL, providers_config, startup, providers >>
cacheVars == << cache_variant, cache_now, cache_entries, cache_got, cache_history >>
waitVars == << caller, sleep_left, timestamp_ages, permits >>
deltaVars == << content_deltas, streamed, non_streamed >>
connVars ==
    << stream_path, handler_at, upstream_connection, upstream_chunks, upstream_sent,
       body_iterator, chunks_forwarded, client_connection >>
laterVars == << cacheVars, waitVars, deltaVars, connVars >>
pureVars == << stripVars, rewriteVars, adapterVars, startupVars, laterVars >>
appVars == << streamVars, proxyVars, pureVars >>
vars == << quotaVars, appVars >>

\* Rows a table can hold when the process starts (the table is persistent):
\* no row, a row that reached the daily limit today, a row with 20 errors.
AtLimitRow ==
    [ NewRow(PacificDate(StartTime)) EXCEPT !.requests_today = max_requests_per_day ]
ErrorRow ==
    [ NewRow(PacificDate(StartTime)) EXCEPT !.error_count = MaxErrorCount,
                                            !.last_error = ErrOther ]
StartRows == { AbsentRow, AtLimitRow, ErrorRow }
FirstModel == CHOOSE m \in Models : \A m2 \in Models : m <= m2

\* asyncio.Semaphore(max_concurrent)
SemaphoreInitTooMany == max_concurrent + 1
SemaphoreInit == max_concurrent

\* The generators of app.py before any streaming request.
StreamIdle ==
    /\ dialect = "openai"
    /\ upstream_messages = << >>
    /\ delivered = 0
    /\ buffer = << >>
    /\ yielded = << >>
    /\ generator = "exhausted"

\* The functions of app.py that no request has called yet.
StripIdle ==
    /\ input_text = << >>
    /\ passes = << >>
NotCalled == [ called |-> FALSE, value |-> "", raised |-> "none" ]
RewriteIdle ==
    /\ MODEL_MAP = << >>
    /\ requested = ""
    /\ rewritten = NotCalled
NotCompleted == [ raised |-> "none", type |-> "none", status |-> 0 ]
NotPosted == [ exception |-> "none", status |-> 0, json |-> FALSE ]
AdapterIdle ==
    /\ config_api_key = ""
    /\ client_headers = {}
    /\ adapter = "idle"
    /\ sent_headers = {}
    /\ post_outcome = NotPosted
    /\ completion = NotCompleted
StartupIdle ==
    /\ UPSTREAM_URL = "valid"
    /\ providers_config = << >>
    /\ startup = "serving"
    /\ providers = << >>
\* The model cache before any operation.
CacheProviders == { "provider1", "provider2" }
NoModels == "None"
NoEntry == [ present |-> FALSE, data |-> NoModels, cached_at |-> 0, ttl_seconds |-> 0 ]
NoGet == [ provider_id |-> "none", result |-> NoModels, n |-> 0 ]
CacheIdle ==
    /\ cache_variant = "inmemory"
    /\ cache_now = 0
    /\ cache_entries = [ p \in CacheProviders |-> NoEntry ]
    /\ cache_got = NoGet
    /\ cache_history = [ p \in CacheProviders |-> NoEntry ]

\* The funnel with no caller and an empty window.
NumCallers == 2
Callers == 1..NumCallers
WaitIdle ==
    /\ caller = [ c \in Callers |-> "away" ]
    /\ sleep_left = [ c \in Callers |-> 0 ]
    /\ timestamp_ages = << >>
    /\ permits = max_concurrent

\* No content to deliver.
NotResponded == [ responded |-> FALSE, content |-> << >> ]
DeltaIdle ==
    /\ content_deltas = << >>
    /\ streamed = << >>
    /\ non_streamed = NotResponded

\* No streaming request.
ConnIdle ==
    /\ stream_path = "openai"
    /\ handler_at = "idle"
    /\ upstream_connection = "none"
    /\ upstream_chunks = 0
    /\ upstream_sent = 0
    /\ body_iterator = "not_started"
    /\ chunks_forwarded = 0
    /\ client_connection = "connected"
LaterIdle == CacheIdle /\ WaitIdle /\ DeltaIdle /\ ConnIdle
PureIdle == StripIdle /\ RewriteIdle /\ AdapterIdle /\ StartupIdle /\ LaterIdle

\* The funnel and the requests after construction: nothing is under way.
NothingUnderWay ==
    /\ semaphore = SemaphoreInit
    /\ active_count = 0
    /\ total_requests = 0
    /\ request_timestamps = << >>
    /\ pc = [ r \in Requests |-> "idle" ]
    /\ model = [ r \in Requests |-> None ]
    /\ api_key = [ r \in Requests |-> None ]
    /\ result = [ r \in Requests |-> "none" ]
    /\ retry_after = [ r \in Requests |-> None ]
    /\ wake_at = [ r \in Requests |-> None ]
    /\ calls = [ kmd \in Keys \X Models \X Dates |-> 0 ]
    /\ grants = << >>
    /\ invalid_recorded = {}
    /\ last_failure = [ km \in Keys \X Models |-> [ error |-> NoError, at |-> None ] ]
    /\ acquired = [ r \in Requests |-> 0 ]
    /\ released = [ r \in Requests |-> 0 ]
    /\ write_failed = {}

\* No response and no exception.
NoResponse == [ status |-> 0, error |-> "none" ]
NoException == "none"

\* A request body: not JSON at all; JSON that is not an object; or an object
\* described by its fields model (absent, a string, or an unhashable value
\* such as a list), messages (absent, a list, or a string), prompt (absent,
\* a string, or a list of strings) and stream.
FieldsAbsent ==
    [ model |-> "absent", messages |-> "absent", prompt |-> "absent", stream |-> FALSE ]
Bodies ==
    { [ kind |-> k, fields |-> FieldsAbsent ] :
        k \in { "malformed", "null", "number", "string", "array" } }
    \cup
    { [ kind |-> "object", fields |-> f ] :
        f \in [ model : { "absent", "str", "unhashable" },
                messages : { "absent", "list", "str" },
                prompt : { "absent", "str", "list" },
                stream : BOOLEAN ] }

\* Nothing has been sent upstream.
NotForwarded == [ sent |-> FALSE, model |-> "absent", no_think |-> FALSE ]

\* The handlers of app.py before any request.
ProxyIdle ==
    /\ path = "/v1/chat/completions"
    /\ payload = [ kind |-> "malformed", fields |-> FieldsAbsent ]
    /\ DISABLE_THINKING = FALSE
    /\ handler = "done"
    /\ upstream_outcome = "none"
    /\ response = NoResponse
    /\ raised = NoException
    /\ STRIP_THINKING = FALSE
    /\ steps = << >>
    /\ forwarded = NotForwarded

Init ==
    /\ StreamIdle
    /\ ProxyIdle
    /\ PureIdle
    /\ now = StartTime
    /\ api_keys \in { s \in [1..NumKeys -> Keys] : \A i, j \in 1..NumKeys : s[i] = s[j] => i = j }
    /\ \E start \in [Keys -> StartRows] :
           quotas = [ km \in Keys \X Models |->
                        IF km[2] = FirstModel THEN start[km[1]] ELSE AbsentRow ]
    /\ enabled \in BOOLEAN
    /\ NothingUnderWay
    /\ tally = [ km \in Keys \X Models |->
                   [ date |-> quotas[km].last_reset_date,
                     requests |-> quotas[km].requests_today,
                     tokens |-> quotas[km].tokens_today ] ]

\* The Google GenAI provider with an empty quota table and no request.
ProviderIdle ==
    /\ now = StartTime
    /\ api_keys = [ i \in 1..NumKeys |-> i ]
    /\ quotas = [ km \in Keys \X Models |-> AbsentRow ]
    /\ enabled = TRUE
    /\ NothingUnderWay
    /\ tally = [ km \in Keys \X Models |->
                   [ date |-> AbsentRow.last_reset_date, requests |-> 0, tokens |-> 0 ] ]

(***************************************************************************)
(* The funnel: acquire_slot and release_slot.                              *)
(***************************************************************************)
\* A timestamp that _wait_for_window_slot removes from the window.
OutsideWindowAtBoundary(timestamp, t) == t - timestamp >= WindowUnits
OutsideWindow(timestamp, t) == t - timestamp > WindowUnits

\* while timestamps and now - timestamps[0] > window: popleft()
RECURSIVE RemoveOld(_, _)
RemoveOld(timestamps, t) ==
    IF timestamps # << >> /\ OutsideWindow(Head(timestamps), t)
    THEN RemoveOld(Tail(timestamps), t)
    ELSE timestamps

\* asyncio.sleep(min(wait_time + 0.1, 5.0)), or no sleep when wait_time is 0.
SleepUnits(wait_time) ==
    IF wait_time > 0
    THEN Min(wait_time + SleepBufferUnits, MaxSleepSeconds * UnitsPerSecond)
    ELSE 0

\* The upstream call starts: asyncio.to_thread(model.generate_content, ...).
Dispatch(r, k, m) ==
    /\ pc' = [ pc EXCEPT ![r] = "calling" ]
    /\ calls' = [ calls EXCEPT ![k, m, PacificDate(now)] = @ + 1 ]

\* await self._semaphore.acquire(), then the counters under the lock.
TakeSemaphore(r, k, m) ==
    IF semaphore > 0
    THEN /\ semaphore' = semaphore - 1
         /\ active_count' = active_count + 1
         /\ total_requests' = total_requests + 1
         /\ acquired' = [ acquired EXCEPT ![r] = @ + 1 ]
         /\ Dispatch(r, k, m)
    ELSE /\ pc' = [ pc EXCEPT ![r] = "semaphore_wait" ]
         /\ UNCHANGED << semaphore, active_count, total_requests, acquired, calls >>

\* if not self.enabled: return
RateLimitingNeverDisabled == FALSE
RateLimitingDisabled == ~enabled

\* One pass of the loop of _wait_for_window_slot and what follows when the
\* window slot is granted.
acquire_slot(r, k, m) ==
    IF RateLimitingDisabled
    THEN /\ Dispatch(r, k, m)
         /\ UNCHANGED << funnelVars, wake_at, grants, acquired >>
    ELSE LET timestamps == RemoveOld(request_timestamps, now)
         IN  IF Len(timestamps) < max_requests_per_window
             THEN /\ request_timestamps' = Append(timestamps, now)
                  /\ grants' = Append(grants, now)
                  /\ wake_at' = [ wake_at EXCEPT ![r] = None ]
                  /\ TakeSemaphore(r, k, m)
             ELSE /\ request_timestamps' = timestamps
                  /\ pc' = [ pc EXCEPT ![r] = "window_wait" ]
                  /\ wake_at' = [ wake_at EXCEPT ![r] =
                         now + SleepUnits(WindowUnits - (now - timestamps[1])) ]
                  /\ UNCHANGED << semaphore, active_count, total_requests,
                                  grants, acquired, calls >>

\* The finally clause around the upstream call: release on every exit path.
ReleasesOnSuccessOnly(success) == success
ReleasesSlot(success) == TRUE

release_slot(r, success) ==
    IF ~RateLimitingDisabled /\ ReleasesSlot(success)
    THEN /\ active_count' = active_count - 1
         /\ semaphore' = semaphore + 1
         /\ released' = [ released EXCEPT ![r] = @ + 1 ]
    ELSE UNCHANGED << active_count, semaphore, released >>

(***************************************************************************)
(* generate_completion, one action per stretch between suspension points.  *)
(***************************************************************************)
\* A request arrives: convert, select a key, then acquire_slot.  Requests
\* are numbered in the order of their arrival.
GenerateCompletion(r, m) ==
    /\ pc[r] = "idle"
    /\ \A earlier \in 1..(r - 1) : pc[earlier] # "idle"
    /\ LET s == _select_best_api_key(quotas, api_keys, m, now)
       IN  /\ quotas' = s.quotas
           /\ model' = [ model EXCEPT ![r] = m ]
           /\ IF s.best_key = None
              THEN \* except ResourceExhausted: no api_key, no bookkeeping
                   /\ pc' = [ pc EXCEPT ![r] = "done" ]
                   /\ result' = [ result EXCEPT ![r] = "quota_error" ]
                   /\ retry_after' = [ retry_after EXCEPT ![r] = s.retry_after_seconds ]
                   /\ UNCHANGED << api_key, wake_at, funnelVars, calls, grants, acquired >>
              ELSE /\ api_key' = [ api_key EXCEPT ![r] = s.best_key ]
                   /\ acquire_slot(r, s.best_key, m)
                   /\ UNCHANGED << result, retry_after >>
    /\ UNCHANGED << now, configVars, invalid_recorded, last_failure, released, tally,
                    write_failed >>
    /\ UNCHANGED appVars

\* The sleep is over: the next pass of the loop of _wait_for_window_slot.
RetryWindowSlot(r) ==
    /\ pc[r] = "window_wait"
    /\ now >= wake_at[r]
    /\ acquire_slot(r, api_key[r], model[r])
    /\ UNCHANGED << now, configVars, quotas, model, api_key, result, retry_after,
                    invalid_recorded, last_failure, released, tally,
                    write_failed >>
    /\ UNCHANGED appVars

\* The semaphore became free for a request waiting on it.
AcquireSemaphore(r) ==
    /\ pc[r] = "semaphore_wait"
    /\ semaphore > 0
    /\ TakeSemaphore(r, api_key[r], model[r])
    /\ UNCHANGED << now, configVars, quotas, request_timestamps, model, api_key,
                    result, retry_after, wake_at, grants, invalid_recorded,
                    last_failure, released, tally,
                    write_failed >>
    /\ UNCHANGED appVars

\* The upstream call returns a response with total_tokens = tokens.
UpstreamSucceeds(r, tokens) ==
    /\ pc[r] = "calling"
    /\ release_slot(r, TRUE)
    /\ quotas' = _update_api_key_stats(quotas, api_key[r], model[r], TRUE, tokens, NoError, now)
    /\ pc' = [ pc EXCEPT ![r] = "done" ]
    /\ result' = [ result EXCEPT ![r] = "ok" ]
    /\ tally' = [ tally EXCEPT ![api_key[r], model[r]] =
                    IF @.date = PacificDate(now)
                    THEN [ @ EXCEPT !.requests = @ + 1, !.tokens = @ + tokens ]
                    ELSE [ date |-> PacificDate(now), requests |-> 1, tokens |-> tokens ] ]
    /\ UNCHANGED << now, configVars, total_requests, request_timestamps, model,
                    api_key, retry_after, wake_at, calls, grants,
                    invalid_recorded, last_failure, acquired, write_failed >>
    /\ UNCHANGED appVars

\* Every except clause of generate_completion ends in raise: the request
\* ends with the error, no other key is selected and no call is repeated.
SelectsAgainAfterFailure == "idle"
RaisesAfterFailure == "done"

\* The upstream call raises; error is the text generate_completion builds.
UpstreamFails(r, error) ==
    /\ pc[r] = "calling"
    /\ release_slot(r, FALSE)
    /\ quotas' = _update_api_key_stats(quotas, api_key[r], model[r], FALSE, 0, error, now)
    /\ pc' = [ pc EXCEPT ![r] = RaisesAfterFailure ]
    /\ result' = [ result EXCEPT ![r] =
           IF error = ErrQuotaExhausted THEN "quota_error" ELSE "error" ]
    /\ invalid_recorded' =
           IF _is_invalid_key_error(error)
           THEN invalid_recorded \cup { api_key[r] }
           ELSE invalid_recorded
    /\ last_failure' = [ last_failure EXCEPT ![api_key[r], model[r]] =
                            [ error |-> error, at |-> now ] ]
    /\ UNCHANGED << now, configVars, total_requests, request_timestamps, model,
                    api_key, retry_after, wake_at, calls, grants, acquired, tally,
                    write_failed >>
    /\ UNCHANGED appVars

\* Time passes.
Tick ==
    /\ now' \in { t \in Instants : t > now }
    /\ UNCHANGED << configVars, quotas, funnelVars, requestVars, historyVars >>
    /\ UNCHANGED appVars

Next ==
    \/ \E r \in Requests, m \in Models : GenerateCompletion(r, m)
    \/ \E r \in Requests : RetryWindowSlot(r)
    \/ \E r \in Requests : AcquireSemaphore(r)
    \/ \E r \in Requests, tokens \in Tokens : UpstreamSucceeds(r, tokens)
    \/ \E r \in Requests, error \in ErrorTexts : UpstreamFails(r, error)
    \/ Tick

Spec == Init /\ [][Next]_vars

(***************************************************************************)
(* The same program with a quota store whose writes can fail: an INSERT or *)
(* UPDATE of peewee raises (database locked, disk full).  A read does not  *)
(* fail.                                                                   *)
(***************************************************************************)
\* The fetch of a record writes when it creates the row or resets it.
FetchWrites(row, pacific_date) ==
    ~row.exists \/ row.last_reset_date # pacific_date

\* _select_best_api_key: the fetch of the i-th configured key raises.  The
\* records of the keys before it are fetched; generate_completion has no
\* api_key yet, so "except Exception" re-raises the wrapped error without
\* bookkeeping.
StoreWriteFailsInSelection(r, m, i) ==
    /\ pc[r] = "idle"
    /\ \A earlier \in 1..(r - 1) : pc[earlier] # "idle"
    /\ FetchWrites(quotas[api_keys[i], m], PacificDate(now))
    /\ quotas' = QuotasAfterFetch(quotas, SubSeq(api_keys, 1, i - 1), m, now)
    /\ model' = [ model EXCEPT ![r] = m ]
    /\ pc' = [ pc EXCEPT ![r] = "done" ]
    /\ result' = [ result EXCEPT ![r] = "error" ]
    /\ write_failed' = write_failed \cup { << api_keys[i], m >> }
    /\ UNCHANGED << now, configVars, funnelVars, api_key, retry_after, wake_at,
                    calls, grants, invalid_recorded, last_failure, acquired,
                    released, tally >>
    /\ UNCHANGED appVars

\* The upstream call returned, and the save of mark_request_success raises
\* in _update_api_key_stats(success=True).  "except Exception" then calls
\* _update_api_key_stats(success=False) with the wrapped error text: either
\* that write goes through (retry_ok) and the wrapped error is raised, or
\* it raises as well, inside the except clause, and leaves
\* generate_completion as it is.
StoreWriteFailsAfterSuccess(r, retry_ok) ==
    /\ pc[r] = "calling"
    /\ release_slot(r, TRUE)
    /\ LET k == api_key[r]
           m == model[r]
           fetched == [ quotas EXCEPT
                          ![k, m] = get_or_create_quota(@, PacificDate(now)) ]
       IN  /\ quotas' = IF retry_ok
                        THEN _update_api_key_stats(fetched, k, m, FALSE, 0, ErrOther, now)
                        ELSE fetched
           /\ last_failure' = IF retry_ok
                              THEN [ last_failure EXCEPT ![k, m] =
                                       [ error |-> ErrOther, at |-> now ] ]
                              ELSE last_failure
           /\ write_failed' = write_failed \cup { << k, m >> }
    /\ pc' = [ pc EXCEPT ![r] = "done" ]
    /\ result' = [ result EXCEPT ![r] = IF retry_ok THEN "error" ELSE "escaped" ]
    /\ UNCHANGED << now, configVars, total_requests, request_timestamps, model,
                    api_key, retry_after, wake_at, calls, grants,
                    invalid_recorded, acquired, tally >>
    /\ UNCHANGED appVars

\* The upstream call raised, and the write of _update_api_key_stats
\* (success=False) raises inside the except clause that called it: the
\* store's exception leaves generate_completion as it is.
StoreWriteFailsAfterFailure(r, error) ==
    /\ pc[r] = "calling"
    /\ release_slot(r, FALSE)
    /\ quotas' = [ quotas EXCEPT
                     ![api_key[r], model[r]] = get_or_create_quota(@, PacificDate(now)) ]
    /\ write_failed' = write_failed \cup { << api_key[r], model[r] >> }
    /\ pc' = [ pc EXCEPT ![r] = "done" ]
    /\ result' = [ result EXCEPT ![r] = "escaped" ]
    /\ UNCHANGED << now, configVars, total_requests, request_timestamps, model,
                    api_key, retry_after, wake_at, calls, grants,
                    invalid_recorded, last_failure, acquired, tally >>
    /\ UNCHANGED appVars

NextStoreFaults ==
    \/ Next
    \/ \E r \in Requests, m \in Models, i \in 1..NumKeys :
          StoreWriteFailsInSelection(r, m, i)
    \/ \E r \in Requests, retry_ok \in BOOLEAN : StoreWriteFailsAfterSuccess(r, retry_ok)
    \/ \E r \in Requests, error \in ErrorTexts : StoreWriteFailsAfterFailure(r, error)

SpecStoreFaults == Init /\ [][NextStoreFaults]_vars

(***************************************************************************)
(* The streaming generators of app.py: openai_streaming_response_generator *)
(* (proxy_request) and ollama_streaming_response_generator                  *)
(* (proxy_ollama_request).                                                 *)
(*                                                                         *)
(* Text is a sequence of characters.  The JSON document of an SSE message  *)
(* and the marker [DONE] each count as one character; upstream sends       *)
(* "data: <json>\n\n" messages, the i-th carrying the document i, and may  *)
(* end with "data: [DONE]\n\n".  aiter_bytes hands the stream over in      *)
(* chunks of any length.                                                   *)
(***************************************************************************)
Newline == "\n"
DoneMarker == "[DONE]"
DataPrefix == << "d", "a", "t", "a", ":" >>
JsonDocs == { ToString(i) : i \in 1..MaxMessages }

\* One SSE message as upstream writes it: data: <data>\n\n
SseMessage(data) == DataPrefix \o << " ", data, Newline, Newline >>
MessageLen == Len(SseMessage(DoneMarker))

\* One line of the Ollama stream: json.dumps(chunk) + b'\n'
OllamaLine(content, done) == << "{", content, done, "}", Newline >>

RECURSIVE UpstreamStream(_)
UpstreamStream(messages) ==
    IF messages = << >> THEN << >>
    ELSE SseMessage(Head(messages)) \o UpstreamStream(Tail(messages))

\* str.strip()
Whitespace(c) == c \in { " ", Newline }
RECURSIVE lstrip(_)
lstrip(text) ==
    IF text # << >> /\ Whitespace(Head(text)) THEN lstrip(Tail(text)) ELSE text
RECURSIVE rstrip(_)
rstrip(text) ==
    IF text # << >> /\ Whitespace(text[Len(text)])
    THEN rstrip(SubSeq(text, 1, Len(text) - 1))
    ELSE text
strip(text) == rstrip(lstrip(text))

\* buffer.find("\n\n"): the 0-based index of the first double newline, or -1.
DoubleNewlineAt(text, i) == text[i] = Newline /\ text[i + 1] = Newline
find(text) ==
    IF \E i \in 1..(Len(text) - 1) : DoubleNewlineAt(text, i)
    THEN (CHOOSE i \in 1..(Len(text) - 1) :
            /\ DoubleNewlineAt(text, i)
            /\ \A j \in 1..(i - 1) : ~DoubleNewlineAt(text, j)) - 1
    ELSE -1

\* text[start:] with a 0-based start.
SliceFrom(text, start) ==
    IF start >= Len(text) THEN << >> ELSE SubSeq(text, start + 1, Len(text))

\* message.startswith("data:")
startswith(text, prefix) ==
    Len(text) >= Len(prefix) /\ SubSeq(text, 1, Len(prefix)) = prefix

\* json.loads(json_data) returns (does not raise JSONDecodeError).
JsonLoads(json_data) == Len(json_data) = 1 /\ json_data[1] \in JsonDocs

\* The while loop of openai_streaming_response_generator on the buffer:
\* what is left in the buffer, what has been yielded, and whether the
\* generator returned.
RECURSIVE openai_streaming_response_generator(_, _)
openai_streaming_response_generator(buf, out) ==
    LET eol == find(buf)
    IN  IF eol = -1
        THEN [ buffer |-> buf, yielded |-> out, returned |-> FALSE ]
        ELSE LET message == strip(SubSeq(buf, 1, eol))
                 rest == SliceFrom(buf, eol + DelimiterSkip)
                 json_data == strip(SliceFrom(message, Len(DataPrefix)))
             IN  IF ~startswith(message, DataPrefix)
                 THEN openai_streaming_response_generator(rest, out)
                 ELSE IF json_data = << DoneMarker >>
                 THEN [ buffer |-> rest,
                        yielded |-> Append(out, SseMessage(DoneMarker)),
                        returned |-> TRUE ]
                 ELSE IF JsonLoads(json_data)
                 THEN openai_streaming_response_generator(
                          rest, Append(out, SseMessage(json_data[1])))
                 ELSE openai_streaming_response_generator(rest, out)

\* The while loop of ollama_streaming_response_generator.
RECURSIVE ollama_streaming_response_generator(_, _)
ollama_streaming_response_generator(buf, out) ==
    LET eol == find(buf)
    IN  IF eol = -1
        THEN [ buffer |-> buf, yielded |-> out, returned |-> FALSE ]
        ELSE LET message == strip(SubSeq(buf, 1, eol))
                 rest == SliceFrom(buf, eol + DelimiterSkip)
                 json_data == strip(SliceFrom(message, Len(DataPrefix)))
             IN  IF ~startswith(message, DataPrefix)
                 THEN ollama_streaming_response_generator(rest, out)
                 ELSE IF json_data = << DoneMarker >>
                 THEN [ buffer |-> rest,
                        yielded |-> Append(out, OllamaLine("", "done:true")),
                        returned |-> TRUE ]
                 ELSE IF JsonLoads(json_data)
                 THEN ollama_streaming_response_generator(
                          rest, Append(out, OllamaLine(json_data[1], "done:false")))
                 ELSE ollama_streaming_response_generator(rest, out)

\* A streaming request: upstream is about to send up to MaxMessages data
\* messages, with or without the terminator.
InitStream ==
    /\ ProviderIdle
    /\ ProxyIdle
    /\ PureIdle
    /\ dialect \in { "openai", "ollama" }
    /\ \E n \in 0..MaxMessages, terminated \in BOOLEAN :
           upstream_messages =
               [ i \in 1..n |-> ToString(i) ]
                   \o (IF terminated THEN << DoneMarker >> ELSE << >>)
    /\ delivered = 0
    /\ buffer = << >>
    /\ yielded = << >>
    /\ generator = "running"

\* async for chunk in upstream.aiter_bytes(): the next n characters arrive
\* and the generator runs its loop on the buffer.
UpstreamChunk(n) ==
    /\ generator = "running"
    /\ delivered + n <= Len(UpstreamStream(upstream_messages))
    /\ LET chunk == SubSeq(UpstreamStream(upstream_messages), delivered + 1, delivered + n)
           after == IF dialect = "openai"
                    THEN openai_streaming_response_generator(buffer \o chunk, yielded)
                    ELSE ollama_streaming_response_generator(buffer \o chunk, yielded)
       IN  /\ buffer' = after.buffer
           /\ yielded' = after.yielded
           /\ generator' = IF after.returned THEN "returned" ELSE "running"
    /\ delivered' = delivered + n
    /\ UNCHANGED << dialect, upstream_messages, quotaVars, proxyVars, pureVars >>

\* Upstream closes the stream: the async for ends and so does the generator.
UpstreamCloses ==
    /\ generator = "running"
    /\ delivered = Len(UpstreamStream(upstream_messages))
    /\ generator' = "exhausted"
    /\ UNCHANGED << dialect, upstream_messages, delivered, buffer, yielded, quotaVars,
                    proxyVars, pureVars >>

NextStream ==
    \/ \E n \in 1..((MaxMessages + 1) * MessageLen) : UpstreamChunk(n)
    \/ UpstreamCloses

SpecStream == InitStream /\ [][NextStream]_vars

(***************************************************************************)
(* The completion handlers of app.py: proxy_request (/v1/chat/completions, *)
(* /v1/completions) and proxy_ollama_request (/api/generate, /api/chat).   *)
(* An action is the code between two awaits: from the arrival of the body  *)
(* to the upstream call, and from the end of the upstream call to the      *)
(* return.  The application installs no exception handler, so an exception *)
(* that leaves a handler is answered by the framework's bare 500.          *)
(***************************************************************************)
OpenAIPaths == { "/v1/chat/completions", "/v1/completions" }
OllamaPaths == { "/api/generate", "/api/chat" }
UpstreamStatuses == { 200, 404 }
UpstreamOutcomes == { "connect_error", "timeout", "other_error", "response" }

JsonResponse(status, error) == [ status |-> status, error |-> error ]

\* The handler returns a response, or an exception leaves it.
Returns(resp) ==
    /\ handler' = "done"
    /\ response' = resp
    /\ raised' = NoException
Raises(exception) ==
    /\ handler' = "done"
    /\ response' = NoResponse
    /\ raised' = exception

\* rewrite_model(model): "model in MODEL_MAP" hashes the value.
rewrite_model_raises(value) == value = "unhashable"

\* The exception that the code of proxy_request before its try block
\* raises for a parsed body, or NoException.
proxy_request_raises(body) ==
    IF body.kind \in { "null", "number" } THEN "TypeError"
    ELSE IF body.kind = "object" /\ body.fields.model # "absent"
            /\ rewrite_model_raises(body.fields.model)
         THEN "TypeError"
    ELSE NoException

\* The exception that the code of proxy_ollama_request before its try
\* block raises for a parsed body, or NoException.
proxy_ollama_request_raises(body, is_chat_endpoint, disable_thinking) ==
    IF body.kind # "object" THEN "TypeError"
    ELSE IF body.fields.model = "absent" THEN "KeyError"
    ELSE IF rewrite_model_raises(body.fields.model) THEN "TypeError"
    ELSE IF is_chat_endpoint /\ body.fields.messages = "absent" THEN "KeyError"
    ELSE IF ~is_chat_endpoint /\ body.fields.prompt = "absent" THEN "KeyError"
    ELSE IF disable_thinking /\ is_chat_endpoint /\ body.fields.messages = "str"
         THEN "AttributeError"
    ELSE NoException

\* The except clauses around the upstream call.
UpstreamFailureResponse(outcome) ==
    IF outcome = "connect_error"
    THEN JsonResponse(StatusBadGateway, "upstream_connection_failed")
    ELSE IF outcome = "timeout"
    THEN JsonResponse(StatusGatewayTimeout, "upstream_timeout")
    ELSE JsonResponse(StatusInternalError, "proxy_error")

\* The payload the handler sends upstream, and the steps that made it.
Forwards(with_model, with_no_think) ==
    /\ handler' = "awaiting_upstream"
    /\ forwarded' = [ sent |-> TRUE,
                      model |-> IF with_model THEN "rewritten" ELSE "absent",
                      no_think |-> with_no_think ]
    /\ steps' = (IF with_model THEN << "rewrite" >> ELSE << >>)
                    \o (IF with_no_think THEN << "no_think" >> ELSE << >>)
                    \o << "forward" >>
    /\ UNCHANGED << response, raised >>

\* The branches of "if DISABLE_THINKING" in proxy_request: the directive
\* goes into messages if that is a list, else into prompt if that is a
\* string, else nowhere.
proxy_request_no_think(body, disable_thinking) ==
    /\ disable_thinking
    /\ \/ body.fields.messages = "list"
       \/ body.fields.prompt = "str"

\* proxy_request from "await request.json()" to the upstream call.
proxy_request_receives ==
    /\ handler = "received"
    /\ path \in OpenAIPaths
    /\ IF payload.kind = "malformed"
       THEN /\ Returns(JsonResponse(StatusBadRequest, "Invalid JSON in request body"))
            /\ UNCHANGED << steps, forwarded >>
       ELSE IF proxy_request_raises(payload) # NoException
       THEN /\ Raises(proxy_request_raises(payload))
            /\ UNCHANGED << steps, forwarded >>
       ELSE IF payload.kind # "object"
       THEN \* payload.get("stream") inside the try: AttributeError
            /\ Returns(UpstreamFailureResponse("other_error"))
            /\ UNCHANGED << steps, forwarded >>
       ELSE Forwards(payload.fields.model # "absent",
                     proxy_request_no_think(payload, DISABLE_THINKING))
    /\ UNCHANGED << path, payload, DISABLE_THINKING, STRIP_THINKING, upstream_outcome >>
    /\ UNCHANGED << quotaVars, streamVars, pureVars >>

\* proxy_ollama_request from "await request.json()" to the upstream call.
proxy_ollama_request_receives ==
    /\ handler = "received"
    /\ path \in OllamaPaths
    /\ LET exception == proxy_ollama_request_raises(
                            payload, path = "/api/chat", DISABLE_THINKING)
       IN  IF payload.kind = "malformed"
           THEN /\ Returns(JsonResponse(StatusBadRequest, "Invalid JSON in request body"))
                /\ UNCHANGED << steps, forwarded >>
           ELSE IF exception # NoException
           THEN /\ Raises(exception)
                /\ steps' = IF /\ payload.kind = "object"
                               /\ payload.fields.model = "str"
                            THEN << "rewrite" >>
                            ELSE << >>
                /\ UNCHANGED forwarded
           ELSE Forwards(TRUE, DISABLE_THINKING)
    /\ UNCHANGED << path, payload, DISABLE_THINKING, STRIP_THINKING, upstream_outcome >>
    /\ UNCHANGED << quotaVars, streamVars, pureVars >>

\* What the handler does with the end of the upstream call: the content of
\* a response is stripped if STRIP_THINKING is set.
UpstreamEnds(outcome, status) ==
    /\ upstream_outcome' = outcome
    /\ IF outcome = "response"
       THEN /\ Returns(JsonResponse(status, "none"))
            /\ steps' = steps \o (IF STRIP_THINKING THEN << "strip" >> ELSE << >>)
       ELSE /\ Returns(UpstreamFailureResponse(outcome))
            /\ UNCHANGED steps
    /\ UNCHANGED forwarded

\* The upstream call of proxy_request ends: client.post or the entry of
\* client.stream returns a response with some status, or raises.
proxy_request_upstream(outcome, status) ==
    /\ handler = "awaiting_upstream"
    /\ path \in OpenAIPaths
    /\ UpstreamEnds(outcome, status)
    /\ UNCHANGED << path, payload, DISABLE_THINKING, STRIP_THINKING >>
    /\ UNCHANGED << quotaVars, streamVars, pureVars >>

\* The upstream call of proxy_ollama_request ends.
proxy_ollama_request_upstream(outcome, status) ==
    /\ handler = "awaiting_upstream"
    /\ path \in OllamaPaths
    /\ UpstreamEnds(outcome, status)
    /\ UNCHANGED << path, payload, DISABLE_THINKING, STRIP_THINKING >>
    /\ UNCHANGED << quotaVars, streamVars, pureVars >>

\* A request arrives at one of the completion endpoints.
InitProxy ==
    /\ ProviderIdle
    /\ StreamIdle
    /\ PureIdle
    /\ path \in OpenAIPaths \cup OllamaPaths
    /\ payload \in Bodies
    /\ DISABLE_THINKING \in BOOLEAN
    /\ STRIP_THINKING \in BOOLEAN
    /\ handler = "received"
    /\ upstream_outcome = "none"
    /\ response = NoResponse
    /\ raised = NoException
    /\ steps = << >>
    /\ forwarded = NotForwarded

NextProxy ==
    \/ proxy_request_receives
    \/ proxy_ollama_request_receives
    \/ \E outcome \in UpstreamOutcomes, status \in UpstreamStatuses :
          proxy_request_upstream(outcome, status)
    \/ \E outcome \in UpstreamOutcomes, status \in UpstreamStatuses :
          proxy_ollama_request_upstream(outcome, status)

SpecProxy == InitProxy /\ [][NextProxy]_vars

(***************************************************************************)
(* strip_think_chain_from_text of app.py, applied to a text and then to    *)
(* its own result.  A text is a sequence of characters, built here from at *)
(* most MaxPieces pieces: the two markers, the two halves of the opening   *)
(* marker, a letter, a space and a full stop.                              *)
(***************************************************************************)
MaxPieces == 5
MaxPasses == 2

OpenMarker == << "<", "t", "h", "i", "n", "k", ">" >>
CloseMarker == << "<", "/", "t", "h", "i", "n", "k", ">" >>
TextPieces ==
    { OpenMarker, CloseMarker, << "<", "t", "h" >>, << "i", "n", "k", ">" >>,
      << "a" >>, << " " >>, << "." >> }

RECURSIVE Concat(_)
Concat(pieces) ==
    IF pieces = << >> THEN << >> ELSE Head(pieces) \o Concat(Tail(pieces))
Texts ==
    { Concat(pieces) : pieces \in UNION { [1..n -> TextPieces] : n \in 0..MaxPieces } }

\* The 1-based index of the first occurrence of marker in text at or after
\* from, or 0.
OccursAt(s, marker, i) ==
    /\ i + Len(marker) - 1 <= Len(s)
    /\ SubSeq(s, i, i + Len(marker) - 1) = marker
FirstOccurrence(s, marker, from) ==
    IF \E i \in from..Len(s) : OccursAt(s, marker, i)
    THEN CHOOSE i \in from..Len(s) :
            /\ OccursAt(s, marker, i)
            /\ \A j \in from..(i - 1) : ~OccursAt(s, marker, j)
    ELSE 0

\* re.sub(r'<think>.*?</think>', '', text, flags=re.DOTALL): one scan from
\* left to right; each match runs from an opening marker to the first
\* closing marker after it, and the scan goes on after the match.
RECURSIVE RemoveThinkBlocks(_)
RemoveThinkBlocks(s) ==
    LET open == FirstOccurrence(s, OpenMarker, 1)
        close == IF open = 0 THEN 0
                 ELSE FirstOccurrence(s, CloseMarker, open + Len(OpenMarker))
    IN  IF close = 0 THEN s
        ELSE SubSeq(s, 1, open - 1)
                 \o RemoveThinkBlocks(SubSeq(s, close + Len(CloseMarker), Len(s)))

\* re.sub(r'\s+', ' ', cleaned)
RECURSIVE CollapseWhitespace(_)
CollapseWhitespace(s) ==
    IF s = << >> THEN << >>
    ELSE IF Whitespace(Head(s)) THEN << " " >> \o CollapseWhitespace(lstrip(s))
    ELSE << Head(s) >> \o CollapseWhitespace(Tail(s))

\* re.sub(r'\s+([.!?,:;])', r'\1', cleaned)
Punctuation == { ".", "!", "?", ",", ":", ";" }
RECURSIVE TrimBeforePunctuation(_)
TrimBeforePunctuation(s) ==
    IF s = << >> THEN << >>
    ELSE IF Whitespace(Head(s))
    THEN LET rest == lstrip(s)
         IN  IF rest # << >> /\ Head(rest) \in Punctuation
             THEN << Head(rest) >> \o TrimBeforePunctuation(Tail(rest))
             ELSE SubSeq(s, 1, Len(s) - Len(rest)) \o TrimBeforePunctuation(rest)
    ELSE << Head(s) >> \o TrimBeforePunctuation(Tail(s))

strip_think_chain_from_text(s) ==
    strip(TrimBeforePunctuation(CollapseWhitespace(RemoveThinkBlocks(s))))

\* A response text arrives from upstream.
InitStrip ==
    /\ ProviderIdle
    /\ StreamIdle
    /\ ProxyIdle
    /\ RewriteIdle
    /\ AdapterIdle
    /\ StartupIdle
    /\ LaterIdle
    /\ input_text \in Texts
    /\ passes = << >>

\* The stripper is applied: to the text, then to what it returned.
StripResponse ==
    /\ Len(passes) < MaxPasses
    /\ passes' = Append(passes,
                     strip_think_chain_from_text(
                         IF passes = << >> THEN input_text ELSE passes[Len(passes)]))
    /\ UNCHANGED << input_text, quotaVars, streamVars, proxyVars, rewriteVars, adapterVars,
                    startupVars, laterVars >>

NextStrip == StripResponse

SpecStrip == InitStrip /\ [][NextStrip]_vars

(***************************************************************************)
(* rewrite_model of app.py and the table MODEL_MAP it reads.  An entry of  *)
(* the table is a literal key, a key between slashes whose inside is a     *)
(* regular expression (described by the model names re.match finds a match *)
(* for), or a key between slashes whose inside re cannot compile.  Targets *)
(* hold no group reference, so match.expand(target) is the target.         *)
(***************************************************************************)
MaxEntries == 3

ModelNames == { "gpt-4", "llama3" }
Targets == { "local-a", "local-b" }

Literal(key, target) ==
    [ kind |-> "literal", key |-> key, matches |-> {}, target |-> target ]
Regex(matches, target) ==
    [ kind |-> "regex", key |-> "", matches |-> matches, target |-> target ]
MalformedRegex(target) ==
    [ kind |-> "malformed", key |-> "", matches |-> {}, target |-> target ]
Entries ==
    { Literal(k, t) : k \in ModelNames, t \in Targets }
    \cup { Regex(ms, t) : ms \in SUBSET ModelNames, t \in Targets }
    \cup { MalformedRegex(t) : t \in Targets }

\* The tables json.loads can return: a key occurs once.
Tables ==
    { table \in UNION { [1..n -> Entries] : n \in 0..MaxEntries } :
        \A i, j \in 1..Len(table) :
            /\ table[i].kind = "literal"
            /\ table[j].kind = "literal"
            /\ table[i].key = table[j].key
            => i = j }

Returned(value) == [ called |-> TRUE, value |-> value, raised |-> NoException ]
Raised(exception) == [ called |-> TRUE, value |-> "", raised |-> exception ]

\* pattern.startswith("/") and pattern.endswith("/")
IsPattern(entry) == entry.kind \in { "regex", "malformed" }

\* The for loop of rewrite_model from entry i on: re.match raises re.error
\* on a pattern it cannot compile.
RECURSIVE rewrite_model_patterns(_, _, _)
rewrite_model_patterns(name, table, i) ==
    IF i > Len(table) THEN Returned(name)
    ELSE IF ~IsPattern(table[i]) THEN rewrite_model_patterns(name, table, i + 1)
    ELSE IF table[i].kind = "malformed" THEN Raised("re.error")
    ELSE IF name \in table[i].matches THEN Returned(table[i].target)
    ELSE rewrite_model_patterns(name, table, i + 1)

rewrite_model(name, table) ==
    IF \E i \in 1..Len(table) : table[i].kind = "literal" /\ table[i].key = name
    THEN LET i == CHOOSE i \in 1..Len(table) :
                      table[i].kind = "literal" /\ table[i].key = name
         IN  Returned(table[i].target)
    ELSE rewrite_model_patterns(name, table, 1)

\* A table has been loaded and a request names a model.
InitRewrite ==
    /\ ProviderIdle
    /\ StreamIdle
    /\ ProxyIdle
    /\ StripIdle
    /\ AdapterIdle
    /\ StartupIdle
    /\ LaterIdle
    /\ MODEL_MAP \in Tables
    /\ requested \in ModelNames
    /\ rewritten = NotCalled

\* A handler calls rewrite_model.
RewriteModel ==
    /\ ~rewritten.called
    /\ rewritten' = rewrite_model(requested, MODEL_MAP)
    /\ UNCHANGED << MODEL_MAP, requested >>
    /\ UNCHANGED << quotaVars, streamVars, proxyVars, stripVars, adapterVars, startupVars,
                    laterVars >>

NextRewrite == RewriteModel

SpecRewrite == InitRewrite /\ [][NextRewrite]_vars

(***************************************************************************)
(* OpenAIProvider.generate_completion of providers.py: the headers it      *)
(* builds and what it makes of the end of the upstream call.  Headers are  *)
(* sets of (name, value) pairs with one value per name.                    *)
(***************************************************************************)
StatusOK == 200
StatusRequestTimeout == 408
StatusServiceUnavailable == 503
StatusApiError == 500

HeaderNames ==
    { "Authorization", "OpenAI-Organization", "openai-project", "User-Agent", "Cookie" }
HeaderValues == { "v1", "v2" }

\* key.lower()
lower(key) ==
    CASE key = "Authorization" -> "authorization"
      [] key = "OpenAI-Organization" -> "openai-organization"
      [] key = "openai-project" -> "openai-project"
      [] key = "User-Agent" -> "user-agent"
      [] key = "Cookie" -> "cookie"
      [] key = "Content-Type" -> "content-type"

ClientHeaders ==
    { h \in SUBSET (HeaderNames \X HeaderValues) :
        \A a, b \in h : a[1] = b[1] => a = b }

\* _get_headers()
BearerOfConfig == "Bearer config"
get_headers(key) ==
    { << "Content-Type", "application/json" >> }
        \cup (IF key # "" THEN { << "Authorization", BearerOfConfig >> } ELSE {})

\* The names generate_completion copies from the client's headers besides
\* Authorization.
PassedThrough == { "openai-organization", "openai-project", "user-agent" }

\* headers[name] = value
SetHeader(headers, name, value) ==
    { h \in headers : h[1] # name } \cup { << name, value >> }

\* The loop over client_headers.items(): each header is looked at once.
RECURSIVE MergeClientHeaders(_, _)
MergeClientHeaders(headers, client) ==
    IF client = {} THEN headers
    ELSE LET h == CHOOSE h \in client : TRUE
             merged == IF lower(h[1]) = "authorization"
                       THEN SetHeader(headers, "Authorization", h[2])
                       ELSE IF lower(h[1]) \in PassedThrough
                       THEN SetHeader(headers, h[1], h[2])
                       ELSE headers
         IN  MergeClientHeaders(merged, client \ { h })

\* The exceptions client.post raises, and the classes of httpx they belong to.
PostExceptions ==
    { "ConnectTimeout", "ReadTimeout", "WriteTimeout", "PoolTimeout",
      "ConnectError", "ReadError", "RemoteProtocolError" }
IsInstance(exception, class) ==
    \/ class = "Exception"
    \/ class = exception
    \/ /\ class = "TimeoutException"
       /\ exception \in { "ConnectTimeout", "ReadTimeout", "WriteTimeout", "PoolTimeout" }

\* How the upstream call ends: an exception of client.post, or a response
\* with a status and a body that is JSON or not.
ErrorStatuses == { 401, 429 }
PostOutcomes ==
    { [ exception |-> e, status |-> 0, json |-> FALSE ] : e \in PostExceptions }
    \cup { [ exception |-> NoException, status |-> st, json |-> j ] :
             st \in { StatusOK } \cup ErrorStatuses, j \in BOOLEAN }

\* What is raised inside the try block for an outcome: the exception of
\* client.post, HTTPStatusError from raise_for_status, JSONDecodeError from
\* response.json(), or nothing.
RaisedInTry(outcome) ==
    IF outcome.exception # NoException THEN outcome.exception
    ELSE IF outcome.status # StatusOK THEN "HTTPStatusError"
    ELSE IF ~outcome.json THEN "JSONDecodeError"
    ELSE NoException

\* The except clauses of generate_completion, in their order.
ExceptClausesNoTimeout == << "HTTPStatusError", "ConnectError", "Exception" >>
ExceptClauses == << "HTTPStatusError", "TimeoutException", "ConnectError", "Exception" >>
Handles(exception) ==
    IF \E i \in 1..Len(ExceptClauses) : IsInstance(exception, ExceptClauses[i])
    THEN ExceptClauses[CHOOSE i \in 1..Len(ExceptClauses) :
                          /\ IsInstance(exception, ExceptClauses[i])
                          /\ \A j \in 1..(i - 1) : ~IsInstance(exception, ExceptClauses[j])]
    ELSE "none"

Pair(type, status) == [ raised |-> NoException, type |-> type, status |-> status ]

\* The (body, status) pair generate_completion returns for an outcome; the
\* body is named by its error type, "completion" for the upstream's answer
\* and "upstream_body" for the JSON body of an upstream error.
generate_completion(outcome) ==
    LET exception == RaisedInTry(outcome)
    IN  IF exception = NoException THEN Pair("completion", StatusOK)
        ELSE IF Handles(exception) = "HTTPStatusError"
        THEN IF outcome.json THEN Pair("upstream_body", outcome.status)
             ELSE Pair("api_error", outcome.status)
        ELSE IF Handles(exception) = "TimeoutException"
        THEN Pair("timeout_error", StatusRequestTimeout)
        ELSE IF Handles(exception) = "ConnectError"
        THEN Pair("connection_error", StatusServiceUnavailable)
        ELSE IF Handles(exception) = "Exception"
        THEN Pair("api_error", StatusApiError)
        ELSE [ raised |-> exception, type |-> "none", status |-> 0 ]

\* generate_completion is called with a client's headers.
InitAdapter ==
    /\ ProviderIdle
    /\ StreamIdle
    /\ ProxyIdle
    /\ StripIdle
    /\ RewriteIdle
    /\ StartupIdle
    /\ LaterIdle
    /\ config_api_key \in { "", "config" }
    /\ client_headers \in ClientHeaders
    /\ adapter = "called"
    /\ sent_headers = {}
    /\ post_outcome = NotPosted
    /\ completion = NotCompleted

\* From the call to "await client.post": the headers are built and sent.
generate_completion_posts ==
    /\ adapter = "called"
    /\ adapter' = "posting"
    /\ sent_headers' = MergeClientHeaders(get_headers(config_api_key), client_headers)
    /\ UNCHANGED << config_api_key, client_headers, post_outcome, completion >>
    /\ UNCHANGED << quotaVars, streamVars, proxyVars, stripVars, rewriteVars, startupVars,
                    laterVars >>

\* The upstream call ends and generate_completion returns.
generate_completion_returns(outcome) ==
    /\ adapter = "posting"
    /\ adapter' = "done"
    /\ post_outcome' = outcome
    /\ completion' = generate_completion(outcome)
    /\ UNCHANGED << config_api_key, client_headers, sent_headers >>
    /\ UNCHANGED << quotaVars, streamVars, proxyVars, stripVars, rewriteVars, startupVars,
                    laterVars >>

NextAdapter ==
    \/ generate_completion_posts
    \/ \E outcome \in PostOutcomes : generate_completion_returns(outcome)

SpecAdapter == InitAdapter /\ [][NextAdapter]_vars

(***************************************************************************)
(* Startup: the URL validation at the import of app.py, and                *)
(* ProviderFactory.create_providers_from_config of providers.py.  A        *)
(* provider configuration is described by its type, by whether it holds    *)
(* API keys, by its enabled flag and by its priority.                      *)
(***************************************************************************)
MaxProviders == 2

UrlForms == { "valid", "empty", "bad_scheme", "no_host" }
ProviderTypes == { "openai", "google-genai", "unknown" }
Priorities == { 1, 2 }
ProviderConfigs ==
    [ type : ProviderTypes, has_api_keys : BOOLEAN, enabled : BOOLEAN,
      priority : Priorities ]

\* validate_url(url, name) raises ValueError.
validate_url_raises(url) == url # "valid"

\* GoogleGenAIConfig(**provider_config) raises ValueError: neither api_keys
\* nor api_keys_file.
GoogleGenAIConfig_raises(provider_config) ==
    provider_config.type = "google-genai" /\ ~provider_config.has_api_keys

\* create_provider(config) raises ValueError: unknown provider type.
create_provider_raises(provider_config) ==
    provider_config.type \notin { "ollama", "openai", "google-genai", "anthropic" }

\* The body of the try block of create_providers_from_config raises for
\* this configuration; the except clause logs the error and the loop goes on.
ProviderConfigFails(provider_config) ==
    \/ GoogleGenAIConfig_raises(provider_config)
    \/ provider_config.enabled /\ create_provider_raises(provider_config)

\* providers.sort(key=lambda p: p.config.priority): a stable sort.
RECURSIVE InsertByPriority(_, _)
InsertByPriority(sorted, provider) ==
    IF sorted = << >> THEN << provider >>
    ELSE IF sorted[Len(sorted)].priority <= provider.priority
    THEN Append(sorted, provider)
    ELSE Append(InsertByPriority(SubSeq(sorted, 1, Len(sorted) - 1), provider),
                sorted[Len(sorted)])
RECURSIVE SortByPriority(_)
SortByPriority(created) ==
    IF created = << >> THEN << >>
    ELSE InsertByPriority(SortByPriority(SubSeq(created, 1, Len(created) - 1)),
                          created[Len(created)])

\* The loop of create_providers_from_config.
RECURSIVE CreatedProviders(_)
CreatedProviders(configs) ==
    IF configs = << >> THEN << >>
    ELSE IF ProviderConfigFails(Head(configs)) \/ ~Head(configs).enabled
    THEN CreatedProviders(Tail(configs))
    ELSE << Head(configs) >> \o CreatedProviders(Tail(configs))
create_providers_from_config(configs) == SortByPriority(CreatedProviders(configs))

\* The process starts with its environment and its provider configuration.
InitStartup ==
    /\ ProviderIdle
    /\ StreamIdle
    /\ ProxyIdle
    /\ StripIdle
    /\ RewriteIdle
    /\ AdapterIdle
    /\ LaterIdle
    /\ UPSTREAM_URL \in UrlForms
    /\ providers_config \in UNION { [1..n -> ProviderConfigs] : n \in 0..MaxProviders }
    /\ startup = "validating"
    /\ providers = << >>

\* "Validate URLs on startup" of app.py: exit(1) on a ValueError.
ValidateUrls ==
    /\ startup = "validating"
    /\ startup' = IF validate_url_raises(UPSTREAM_URL) THEN "exited"
                  ELSE "creating_providers"
    /\ UNCHANGED << UPSTREAM_URL, providers_config, providers >>
    /\ UNCHANGED << quotaVars, streamVars, proxyVars, stripVars, rewriteVars, adapterVars,
                    laterVars >>

\* The factory is called on the configuration and returns its list.
CreateProviders ==
    /\ startup = "creating_providers"
    /\ providers' = create_providers_from_config(providers_config)
    /\ startup' = "serving"
    /\ UNCHANGED << UPSTREAM_URL, providers_config >>
    /\ UNCHANGED << quotaVars, streamVars, proxyVars, stripVars, rewriteVars, adapterVars,
                    laterVars >>

NextStartup ==
    \/ ValidateUrls
    \/ CreateProviders

SpecStartup == InitStartup /\ [][NextStartup]_vars

(***************************************************************************)
(* The model cache (InMemoryModelCache and NoOpModelCache of caching.py,   *)
(* which tests of test_architecture.py exercise): one entry per provider,  *)
(* holding a list of models, the instant it was cached and its TTL.  A     *)
(* list of models is named by a letter; time is counted in seconds.        *)
(***************************************************************************)
MaxCacheTime == 3
MaxTtl == 2
MaxGets == 2

ModelLists == { "A", "B" }
Ttls == 1..MaxTtl

CacheEntry(data, cached_at, ttl_seconds) ==
    [ present |-> TRUE, data |-> data, cached_at |-> cached_at,
      ttl_seconds |-> ttl_seconds ]

\* CacheEntry.is_expired(): the TTL has elapsed since the entry was cached.
is_expired_late(entry, t) == t - entry.cached_at > entry.ttl_seconds
is_expired(entry, t) == t - entry.cached_at >= entry.ttl_seconds

\* What get_cached_models(provider_id) returns.
get_cached_models(variant, entries, provider_id, t) ==
    IF variant = "noop" THEN NoModels
    ELSE IF ~entries[provider_id].present THEN NoModels
    ELSE IF is_expired(entries[provider_id], t) THEN NoModels
    ELSE entries[provider_id].data

\* A cache has been constructed.
InitCache ==
    /\ ProviderIdle
    /\ StreamIdle
    /\ ProxyIdle
    /\ StripIdle
    /\ RewriteIdle
    /\ AdapterIdle
    /\ StartupIdle
    /\ WaitIdle
    /\ DeltaIdle
    /\ ConnIdle
    /\ cache_variant \in { "inmemory", "noop" }
    /\ cache_now = 0
    /\ cache_entries = [ p \in CacheProviders |-> NoEntry ]
    /\ cache_got = NoGet
    /\ cache_history = [ p \in CacheProviders |-> NoEntry ]

CacheFrame ==
    UNCHANGED << quotaVars, streamVars, proxyVars, stripVars, rewriteVars, adapterVars,
                 startupVars, waitVars, deltaVars, connVars >>

\* cache_models(provider_id, models, ttl): the entry of the provider is
\* overwritten; the no-op cache stores nothing.
cache_models(provider_id, models, ttl) ==
    /\ cache_entries' =
           IF cache_variant = "noop" THEN cache_entries
           ELSE [ cache_entries EXCEPT ![provider_id] = CacheEntry(models, cache_now, ttl) ]
    /\ cache_history' =
           [ cache_history EXCEPT ![provider_id] = CacheEntry(models, cache_now, ttl) ]
    /\ UNCHANGED << cache_variant, cache_now, cache_got >>
    /\ CacheFrame

\* get_cached_models(provider_id): an expired entry is treated as absent
\* and removed on the way.
GetCachedModels(provider_id) ==
    /\ cache_got.n < MaxGets
    /\ cache_got' =
           [ provider_id |-> provider_id,
             result |-> get_cached_models(cache_variant, cache_entries, provider_id,
                                          cache_now),
             n |-> cache_got.n + 1 ]
    /\ cache_entries' =
           IF /\ cache_variant = "inmemory"
              /\ cache_entries[provider_id].present
              /\ is_expired(cache_entries[provider_id], cache_now)
           THEN [ cache_entries EXCEPT ![provider_id] = NoEntry ]
           ELSE cache_entries
    /\ UNCHANGED << cache_variant, cache_now, cache_history >>
    /\ CacheFrame

\* invalidate_cache(provider_id): the entry of that provider is removed.
invalidate_cache(provider_id) ==
    /\ cache_entries' =
           IF cache_variant = "noop" THEN cache_entries
           ELSE [ cache_entries EXCEPT ![provider_id] = NoEntry ]
    /\ cache_history' = [ cache_history EXCEPT ![provider_id] = NoEntry ]
    /\ UNCHANGED << cache_variant, cache_now, cache_got >>
    /\ CacheFrame

\* invalidate_cache(): every entry is removed.
invalidate_cache_all ==
    /\ cache_entries' = [ p \in CacheProviders |-> NoEntry ]
    /\ cache_history' = [ p \in CacheProviders |-> NoEntry ]
    /\ UNCHANGED << cache_variant, cache_now, cache_got >>
    /\ CacheFrame

\* A second passes.
CacheTick ==
    /\ cache_now < MaxCacheTime
    /\ cache_now' = cache_now + 1
    /\ UNCHANGED << cache_variant, cache_entries, cache_got, cache_history >>
    /\ CacheFrame

NextCache ==
    \/ \E p \in CacheProviders, models \in ModelLists, ttl \in Ttls :
          cache_models(p, models, ttl)
    \/ \E p \in CacheProviders : GetCachedModels(p)
    \/ \E p \in CacheProviders : invalidate_cache(p)
    \/ invalidate_cache_all
    \/ CacheTick

SpecCache == InitCache /\ [][NextCache]_vars

(***************************************************************************)
(* The funnel over unbounded time.  Callers come back again and again, so  *)
(* the clock cannot be a bounded absolute instant: each timestamp of the   *)
(* window is kept as its age now - t, which is all _wait_for_window_slot   *)
(* reads, and each sleeping caller as the time left of its sleep.  An age  *)
(* beyond the window is kept as WindowUnits + 1.                           *)
(***************************************************************************)
\* while timestamps and now - timestamps[0] > window: popleft()
RECURSIVE RemoveOldAges(_)
RemoveOldAges(ages) ==
    IF ages # << >> /\ Head(ages) > WindowUnits
    THEN RemoveOldAges(Tail(ages))
    ELSE ages

\* await self._semaphore.acquire(): the caller takes a permit or waits.
SemaphoreAcquire(c) ==
    IF permits > 0
    THEN /\ permits' = permits - 1
         /\ caller' = [ caller EXCEPT ![c] = "holding" ]
    ELSE /\ caller' = [ caller EXCEPT ![c] = "semaphore_wait" ]
         /\ UNCHANGED permits

\* One pass of the loop of _wait_for_window_slot, and the rest of
\* acquire_slot when the pass returns.
_wait_for_window_slot(c) ==
    LET ages == RemoveOldAges(timestamp_ages)
    IN  IF Len(ages) < max_requests_per_window
        THEN /\ timestamp_ages' = Append(ages, 0)
             /\ sleep_left' = [ sleep_left EXCEPT ![c] = 0 ]
             /\ SemaphoreAcquire(c)
        ELSE /\ timestamp_ages' = ages
             /\ caller' = [ caller EXCEPT ![c] = "window_wait" ]
             /\ sleep_left' = [ sleep_left EXCEPT ![c] =
                                  SleepUnits(WindowUnits - ages[1]) ]
             /\ UNCHANGED permits

InitWait ==
    /\ ProviderIdle
    /\ StreamIdle
    /\ ProxyIdle
    /\ StripIdle
    /\ RewriteIdle
    /\ AdapterIdle
    /\ StartupIdle
    /\ CacheIdle
    /\ DeltaIdle
    /\ ConnIdle
    /\ WaitIdle

WaitFrame ==
    UNCHANGED << quotaVars, streamVars, proxyVars, stripVars, rewriteVars, adapterVars,
                 startupVars, cacheVars, deltaVars, connVars >>

\* A caller calls acquire_slot (the funnel is enabled).
CallerArrives(c) ==
    /\ caller[c] = "away"
    /\ _wait_for_window_slot(c)
    /\ WaitFrame

\* The sleep of a caller is over: the next pass of the loop.
CallerWakes(c) ==
    /\ caller[c] = "window_wait"
    /\ sleep_left[c] = 0
    /\ _wait_for_window_slot(c)
    /\ WaitFrame

\* A caller waiting for the semaphore gets a permit.
CallerGetsPermit(c) ==
    /\ caller[c] = "semaphore_wait"
    /\ permits > 0
    /\ permits' = permits - 1
    /\ caller' = [ caller EXCEPT ![c] = "holding" ]
    /\ UNCHANGED << sleep_left, timestamp_ages >>
    /\ WaitFrame

\* release_slot: the upstream call of the caller is over.
CallerReleases(c) ==
    /\ caller[c] = "holding"
    /\ permits' = permits + 1
    /\ caller' = [ caller EXCEPT ![c] = "away" ]
    /\ UNCHANGED << sleep_left, timestamp_ages >>
    /\ WaitFrame

\* The times from now to the instants at which something changes: a sleep
\* ends, or a timestamp leaves the window.
NextEvents ==
    { sleep_left[c] : c \in { w \in Callers : sleep_left[w] > 0 } }
        \cup { WindowUnits + 1 - timestamp_ages[i] :
                  i \in { j \in 1..Len(timestamp_ages) :
                             timestamp_ages[j] <= WindowUnits } }

\* A caller the event loop can run at once: its sleep is over, or the permit
\* it waits for is free.  A caller whose pass finds the window full with
\* wait_time = 0 does not sleep and repeats the pass until the clock moves.
Spinning ==
    /\ Len(timestamp_ages) >= max_requests_per_window
    /\ Head(timestamp_ages) = WindowUnits
ReadyToRun(c) ==
    \/ caller[c] = "window_wait" /\ sleep_left[c] = 0 /\ ~Spinning
    \/ caller[c] = "semaphore_wait" /\ permits > 0

\* Time passes, up to the next such instant.  The event loop runs what is
\* ready before it waits for a timer.
TimePasses ==
    /\ \A c \in Callers : ~ReadyToRun(c)
    /\ NextEvents # { }
    /\ LET d == CHOOSE e \in NextEvents : \A other \in NextEvents : e <= other
       IN  /\ timestamp_ages' =
                  [ i \in 1..Len(timestamp_ages) |->
                        Min(timestamp_ages[i] + d, WindowUnits + 1) ]
           /\ sleep_left' = [ c \in Callers |-> Max(sleep_left[c] - d, 0) ]
    /\ UNCHANGED << caller, permits >>
    /\ WaitFrame

NextWait ==
    \/ \E c \in Callers : CallerArrives(c)
    \/ \E c \in Callers : CallerWakes(c)
    \/ \E c \in Callers : CallerGetsPermit(c)
    \/ \E c \in Callers : CallerReleases(c)
    \/ TimePasses

\* What the event loop and the claim's provisos guarantee: time keeps
\* advancing, a caller whose sleep is over runs its next pass, a caller
\* waiting for a permit gets one if permits keep becoming free, and every
\* granted slot is released.
FairWait ==
    /\ WF_vars(TimePasses)
    /\ \A c \in Callers : SF_vars(CallerWakes(c))
    /\ \A c \in Callers : SF_vars(CallerGetsPermit(c))
    /\ \A c \in Callers : WF_vars(CallerReleases(c))

SpecWait == InitWait /\ [][NextWait]_vars /\ FairWait

(***************************************************************************)
(* One upstream content delivered both ways by proxy_request with          *)
(* STRIP_THINKING set: streamed, as a sequence of deltas of which the      *)
(* generator strips each on its own, and non-streamed, where the handler   *)
(* strips the whole content.  The upstream splits the content between the  *)
(* pieces it is built from.  json.dumps and the client's parse give back   *)
(* the string they were given.                                             *)
(***************************************************************************)
MaxDeltas == 3

InitDeltas ==
    /\ ProviderIdle
    /\ StreamIdle
    /\ ProxyIdle
    /\ StripIdle
    /\ RewriteIdle
    /\ AdapterIdle
    /\ StartupIdle
    /\ CacheIdle
    /\ WaitIdle
    /\ ConnIdle
    /\ content_deltas \in UNION { [1..n -> TextPieces] : n \in 1..MaxDeltas }
    /\ streamed = << >>
    /\ non_streamed = NotResponded

DeltaFrame ==
    UNCHANGED << quotaVars, streamVars, proxyVars, stripVars, rewriteVars, adapterVars,
                 startupVars, cacheVars, waitVars, connVars >>

\* The streaming generator handles the next message:
\* delta["content"] = strip_think_chain_from_text(delta["content"]).
StreamDelta ==
    /\ Len(streamed) < Len(content_deltas)
    /\ streamed' = Append(streamed,
                       strip_think_chain_from_text(content_deltas[Len(streamed) + 1]))
    /\ UNCHANGED << content_deltas, non_streamed >>
    /\ DeltaFrame

\* The non-streaming branch:
\* message["content"] = strip_think_chain_from_text(message["content"]).
NonStreamResponse ==
    /\ ~non_streamed.responded
    /\ non_streamed' = [ responded |-> TRUE,
                         content |-> strip_think_chain_from_text(Concat(content_deltas)) ]
    /\ UNCHANGED << content_deltas, streamed >>
    /\ DeltaFrame

NextDeltas ==
    \/ StreamDelta
    \/ NonStreamResponse

SpecDeltas == InitDeltas /\ [][NextDeltas]_vars

(***************************************************************************)
(* The upstream connection of a streaming request of proxy_request or      *)
(* proxy_ollama_request.  The handler enters                               *)
(*   async with httpx.AsyncClient(...) as client:                          *)
(*       async with client.stream(...) as upstream:                        *)
(* and returns StreamingResponse(generator()) from inside both blocks; the *)
(* server iterates the generator after the handler has returned.  The      *)
(* upstream sends its chunks while the connection is open, at most         *)
(* MaxChunks of them.                                                      *)
(***************************************************************************)
MaxChunks == 4

InitConn ==
    /\ ProviderIdle
    /\ StreamIdle
    /\ ProxyIdle
    /\ StripIdle
    /\ RewriteIdle
    /\ AdapterIdle
    /\ StartupIdle
    /\ CacheIdle
    /\ WaitIdle
    /\ DeltaIdle
    /\ stream_path \in { "openai", "ollama" }
    /\ handler_at = "idle"
    /\ upstream_connection = "none"
    /\ upstream_chunks \in 1..MaxChunks
    /\ upstream_sent = 0
    /\ body_iterator = "not_started"
    /\ chunks_forwarded = 0
    /\ client_connection = "connected"

ConnFrame ==
    UNCHANGED << quotaVars, streamVars, proxyVars, stripVars, rewriteVars, adapterVars,
                 startupVars, cacheVars, waitVars, deltaVars >>

\* A request with "stream": true arrives: client.stream("POST", url, ...).
StreamRequest ==
    /\ handler_at = "idle"
    /\ handler_at' = "connecting"
    /\ UNCHANGED << stream_path, upstream_connection, upstream_chunks, upstream_sent,
                    body_iterator, chunks_forwarded, client_connection >>
    /\ ConnFrame

\* The upstream answers with its status line and headers: the handler is
\* inside both async with blocks.
UpstreamAccepts ==
    /\ handler_at = "connecting"
    /\ handler_at' = "in_stream_context"
    /\ upstream_connection' = "open"
    /\ UNCHANGED << stream_path, upstream_chunks, upstream_sent, body_iterator,
                    chunks_forwarded, client_connection >>
    /\ ConnFrame

\* except httpx.ConnectError: the handler returns a JSON error response.
UpstreamRefuses ==
    /\ handler_at = "connecting"
    /\ handler_at' = "returned"
    /\ UNCHANGED << stream_path, upstream_connection, upstream_chunks, upstream_sent,
                    body_iterator, chunks_forwarded, client_connection >>
    /\ ConnFrame

\* The upstream sends its next chunk.
UpstreamSends ==
    /\ upstream_connection = "open"
    /\ upstream_sent < upstream_chunks
    /\ upstream_sent' = upstream_sent + 1
    /\ UNCHANGED << stream_path, handler_at, upstream_connection, upstream_chunks,
                    body_iterator, chunks_forwarded, client_connection >>
    /\ ConnFrame

\* return StreamingResponse(...): the return statement leaves both async
\* with blocks, whose exits close the upstream response and the client.
HandlerReturns ==
    /\ handler_at = "in_stream_context"
    /\ handler_at' = "returned"
    /\ upstream_connection' = "closed"
    /\ UNCHANGED << stream_path, upstream_chunks, upstream_sent, body_iterator,
                    chunks_forwarded, client_connection >>
    /\ ConnFrame

\* The server asks the generator for its next item: async for chunk in
\* upstream.aiter_bytes().  On a closed response httpx raises StreamClosed,
\* which no try of the generator encloses.
BodyIterates ==
    /\ handler_at = "returned"
    /\ upstream_connection # "none"
    /\ client_connection = "connected"
    /\ body_iterator \in { "not_started", "running" }
    /\ IF upstream_connection = "closed"
       THEN /\ body_iterator' = "failed"
            /\ UNCHANGED << chunks_forwarded, upstream_connection >>
       ELSE IF chunks_forwarded < upstream_sent
       THEN /\ body_iterator' = "running"
            /\ chunks_forwarded' = chunks_forwarded + 1
            /\ UNCHANGED upstream_connection
       ELSE /\ chunks_forwarded = upstream_chunks
            /\ body_iterator' = "finished"
            /\ upstream_connection' = "closed"
            /\ UNCHANGED chunks_forwarded
    /\ UNCHANGED << stream_path, handler_at, upstream_chunks, upstream_sent,
                    client_connection >>
    /\ ConnFrame

\* The client goes away; the server stops iterating the body.
ClientDisconnects ==
    /\ client_connection = "connected"
    /\ client_connection' = "disconnected"
    /\ UNCHANGED << stream_path, handler_at, upstream_connection, upstream_chunks,
                    upstream_sent, body_iterator, chunks_forwarded >>
    /\ ConnFrame

NextConn ==
    \/ StreamRequest
    \/ UpstreamAccepts
    \/ UpstreamRefuses
    \/ UpstreamSends
    \/ HandlerReturns
    \/ BodyIterates
    \/ ClientDisconnects

SpecConn == InitConn /\ [][NextConn]_vars

(***************************************************************************)
(* Vocabulary of the properties.                                           *)
(***************************************************************************)
\* Request r runs _select_best_api_key in this step.
Selects(r) == pc[r] = "idle" /\ pc'[r] # "idle"

\* Request r is the only one under way and has selected its key, so the
\* table is the one its selection left behind.
OnlyActive(r) ==
    /\ pc[r] \in { "window_wait", "semaphore_wait", "calling" }
    /\ \A other \in Requests \ { r } : pc[other] = "idle"

\* The effective daily request count of a stored row on a Pacific date.
EffectiveCount(row, pacific_date) ==
    IF row.exists /\ row.last_reset_date = pacific_date THEN row.requests_today ELSE 0

\* The keys that survive the exclusion rules for model m at instant t.
Survivors(m, t) ==
    { k \in Keys :
        KeyClass(get_or_create_quota(quotas[k, m], PacificDate(t)), t) = "available" }

\* Requests holding a concurrency slot of the funnel.
Holders == { r \in Requests : acquired[r] > released[r] }

\* The upstream call of request r ends in this step, with an error or with
\* a response.
CallFails(r) == pc[r] = "calling" /\ pc'[r] = "done" /\ result'[r] # "ok"
CallSucceeds(r) == pc[r] = "calling" /\ pc'[r] = "done" /\ result'[r] = "ok"

\* The record of a stored row after the daily reset, field by field.
AfterDailyReset(row, pacific_date) ==
    [ exists |-> TRUE, requests_today |-> 0, tokens_today |-> 0,
      last_reset_date |-> pacific_date, quota_exhausted_at |-> None,
      invalid_key |-> row.invalid_key,
      error_count |-> IF row.error_count > ResetErrorDecay
                      THEN row.error_count - ResetErrorDecay ELSE 0,
      last_error |-> row.last_error ]

\* The record a request's bookkeeping starts from: the stored row, created
\* if absent and reset if its date is not today's.
RecordToday(row, pacific_date) ==
    IF ~row.exists THEN [ AbsentRow EXCEPT !.exists = TRUE,
                                           !.last_reset_date = pacific_date ]
    ELSE IF row.last_reset_date # pacific_date THEN AfterDailyReset(row, pacific_date)
    ELSE row

(***************************************************************************)
(* Properties.                                                             *)
(***************************************************************************)
\* C1: whenever key selection returns a key, that key is not flagged
\* permanently invalid and its effective daily request count for the model
\* (the stored count if the row's reset date is today, otherwise 0) is
\* strictly below max_requests_per_day.
C1_SelectedKeyValidAndBelowLimit ==
    [][ \A r \in Requests :
          (Selects(r) /\ api_key'[r] # None) =>
              LET row == quotas[api_key'[r], model'[r]]
              IN  /\ ~row.invalid_key
                  /\ EffectiveCount(row, PacificDate(now)) < max_requests_per_day
      ]_vars

\* C1 witness: a key was returned while another key of the model stood at
\* the daily limit.
C1_Witness ==
    \E r \in Requests, k \in Keys :
        /\ OnlyActive(r)
        /\ k # api_key[r]
        /\ quotas[k, model[r]].last_reset_date = PacificDate(now)
        /\ quotas[k, model[r]].requests_today >= max_requests_per_day

\* C2 (as claimed): when every configured key is excluded for the model,
\* the request ends with the quota-exhausted error, dispatches no upstream
\* call, and its retry-after is strictly positive and is the number of
\* whole seconds until the next Pacific midnight.
C2_ExhaustedRaisesPositiveRetryAfter ==
    [][ \A r \in Requests :
          (Selects(r) /\ Survivors(model'[r], now) = {}) =>
              /\ pc'[r] = "done"
              /\ result'[r] = "quota_error"
              /\ calls' = calls
              /\ retry_after'[r] > 0
              /\ retry_after'[r] * UnitsPerSecond
                     <= (PacificDate(now) + 1) * UnitsPerDay - now
              /\ (PacificDate(now) + 1) * UnitsPerDay - now
                     < (retry_after'[r] + 1) * UnitsPerSecond
      ]_vars

\* C3 (as claimed): the upstream calls dispatched with one key for one
\* model on one Pacific date never exceed max_requests_per_day.
C3_CallsWithinDailyLimit ==
    \A kmd \in Keys \X Models \X Dates : calls[kmd] <= max_requests_per_day

\* C4: with the funnel enabled, the requests that acquired a slot and have
\* not released it are at most max_concurrent.
C4_HoldersWithinMaxConcurrent ==
    enabled => Cardinality(Holders) <= max_concurrent

\* C4 witness: all slots are held and a further request waits for one.
C4_Witness ==
    /\ enabled
    /\ Cardinality(Holders) = max_concurrent
    /\ \E r \in Requests : pc[r] = "semaphore_wait"

\* C5: with the funnel enabled, any max_requests_per_window + 1 successive
\* grants of a window slot span more than the window: no interval of the
\* window length holds more than max_requests_per_window grants, and a
\* further grant comes only after the oldest one is older than the window.
C5_WindowLimitsGrants ==
    enabled =>
        \A i \in 1..Len(grants) :
            i > max_requests_per_window =>
                grants[i] - grants[i - max_requests_per_window] > WindowUnits

\* C5 witness: a caller was granted a window slot after the window was full.
C5_Witness ==
    /\ enabled
    /\ Len(grants) > max_requests_per_window

\* C6: a request releases the slot it acquired exactly once, when its
\* upstream call ends with a response or with an error; when no request is
\* under way no slot is held.
C6_SlotReleasedOnEveryExit ==
    /\ \A r \in Requests :
          /\ acquired[r] <= 1
          /\ released[r] <= acquired[r]
          /\ (enabled /\ pc[r] = "calling") => (acquired[r] = 1 /\ released[r] = 0)
          /\ pc[r] = "done" => released[r] = acquired[r]
    /\ (enabled /\ \A r \in Requests : pc[r] \in { "idle", "done" }) =>
          /\ Holders = {}
          /\ semaphore = max_concurrent
          /\ active_count = 0

\* C6 witness: a request whose upstream call failed has released its slot
\* and nothing is under way.
C6_Witness ==
    /\ enabled
    /\ \A r \in Requests : pc[r] = "done"
    /\ \E r \in Requests :
          result[r] = "error" /\ acquired[r] = 1 /\ released[r] = 1

\* C7 (as claimed): once an invalid-key failure has been recorded for a
\* key, no later selection returns that key, for any model.
C7_InvalidKeyNeverSelectedAgain ==
    [][ \A r \in Requests :
          (Selects(r) /\ api_key'[r] # None) => api_key'[r] \notin invalid_recorded
      ]_vars

\* C8: selection for a model does not return a key whose latest recorded
\* error for the model is a quota exhaustion, stamped less than an hour ago
\* on the current Pacific date, whatever the key's daily count.
C8_Recent429KeyNotSelected ==
    [][ \A r \in Requests :
          (Selects(r) /\ api_key'[r] # None) =>
              LET row == quotas[api_key'[r], model'[r]]
              IN  ~ /\ row.exists
                    /\ row.last_error = ErrQuotaExhausted
                    /\ row.quota_exhausted_at # None
                    /\ PacificDate(row.quota_exhausted_at) = PacificDate(now)
                    /\ now - row.quota_exhausted_at < CooldownUnits
      ]_vars

\* C8 witness: after a request failed with a 429, the next request took
\* another key although the failed key was below the daily limit and its
\* 429 less than an hour old.
C8_Witness ==
    \E r, first \in Requests, k \in Keys :
        /\ pc[r] = "calling"
        /\ pc[first] = "done" /\ result[first] = "quota_error" /\ api_key[first] = k
        /\ \A other \in Requests \ { r, first } : pc[other] = "idle"
        /\ model[r] = model[first]
        /\ api_key[r] # k
        /\ quotas[k, model[r]].last_error = ErrQuotaExhausted
        /\ quotas[k, model[r]].requests_today < max_requests_per_day
        /\ quotas[k, model[r]].quota_exhausted_at # None
        /\ PacificDate(quotas[k, model[r]].quota_exhausted_at) = PacificDate(now)
        /\ now - quotas[k, model[r]].quota_exhausted_at < CooldownUnits

\* C9 (as claimed): key selection leaves every stored quota row unchanged.
C9_SelectionWritesNoRow ==
    [][ \A r \in Requests :
          Selects(r) =>
              \A km \in Keys \X Models : quotas[km].exists => quotas'[km] = quotas[km]
      ]_vars

\* C9 (amended): key selection leaves unchanged every stored row of another
\* model and every stored row whose reset date is today; a stored row of
\* the requested model with another reset date is reset and saved: both
\* counters 0, exhaustion timestamp cleared, reset date today, error count
\* max(0, old - 5), invalid flag and last error kept.
C9_SelectionResetsOnlyStaleRows ==
    [][ \A r \in Requests :
          Selects(r) =>
              \A km \in Keys \X Models :
                  quotas[km].exists =>
                      quotas'[km] =
                          IF /\ km[2] = model'[r]
                             /\ quotas[km].last_reset_date # PacificDate(now)
                          THEN [ quotas[km] EXCEPT
                                   !.requests_today = 0,
                                   !.tokens_today = 0,
                                   !.quota_exhausted_at = None,
                                   !.last_reset_date = PacificDate(now),
                                   !.error_count =
                                       IF @ > ResetErrorDecay
                                       THEN @ - ResetErrorDecay ELSE 0 ]
                          ELSE quotas[km]
      ]_vars

\* C9 witness: the first selection of the run, on the day after the rows
\* were last reset, has reset a row that held errors.
C9_Witness ==
    \E r \in Requests, k \in Keys :
        /\ OnlyActive(r)
        /\ quotas[k, model[r]].last_error = ErrOther
        /\ quotas[k, model[r]].error_count = MaxErrorCount - ResetErrorDecay
        /\ quotas[k, model[r]].last_reset_date = PacificDate(now)
        /\ PacificDate(now) # PacificDate(StartTime)

C11_SelectedKeyAtMostTwentyErrors ==
    [][ \A r \in Requests :
          Selects(r) =>
              /\ api_key'[r] # None =>
                    quotas'[api_key'[r], model'[r]].error_count <= MaxErrorCount
              /\ (\E k \in Keys :
                     LET row == get_or_create_quota(quotas[k, model'[r]], PacificDate(now))
                     IN  /\ row.error_count = MaxErrorCount
                         /\ ~row.invalid_key
                         /\ row.requests_today < max_requests_per_day
                         /\ row.quota_exhausted_at = None)
                  => api_key'[r] # None
      ]_vars

\* C11 witness: a key was selected at exactly 20 errors, its call failed,
\* and with 21 errors on the same day the next selection for the model
\* passed it over.
C11_Witness ==
    \E r, first \in Requests, k \in Keys :
        /\ pc[r] = "calling"
        /\ pc[first] = "done" /\ result[first] = "error" /\ api_key[first] = k
        /\ model[r] = model[first]
        /\ api_key[r] # k
        /\ quotas[k, model[r]].error_count = MaxErrorCount + 1
        /\ quotas[k, model[r]].last_reset_date = PacificDate(now)
        /\ quotas[k, model[r]].requests_today < max_requests_per_day
        /\ ~quotas[k, model[r]].invalid_key

\* C12 (as claimed): every failed upstream call adds one to the error count
\* of the record of its key and model and stores the error text as the
\* record's last error, whatever the kind of the failure.
C12_FailureCountedAndRecorded ==
    [][ \A r \in Requests :
          CallFails(r) =>
              LET k == api_key[r]
                  m == model[r]
                  before == RecordToday(quotas[k, m], PacificDate(now))
              IN  /\ quotas'[k, m].error_count = before.error_count + 1
                  /\ quotas'[k, m].last_error = last_failure'[k, m].error
      ]_vars

\* C13: a successful completion with key k and model m adds one to the
\* daily request count of the record, adds the reported total tokens to its
\* token count and sets its error count to max(0, error count - 1); in
\* every reachable state the error count and both daily counters of every
\* record are non-negative.
C13_SuccessCountsAndDecays ==
    /\ [](\A km \in Keys \X Models :
              /\ quotas[km].error_count >= 0
              /\ quotas[km].requests_today >= 0
              /\ quotas[km].tokens_today >= 0)
    /\ [][ \A r \in Requests :
             CallSucceeds(r) =>
                 LET k == api_key[r]
                     m == model[r]
                     before == RecordToday(quotas[k, m], PacificDate(now))
                 IN  /\ quotas'[k, m].requests_today = before.requests_today + 1
                     /\ quotas'[k, m].tokens_today \in
                            { before.tokens_today + tokens : tokens \in Tokens }
                     /\ quotas'[k, m].error_count =
                            IF before.error_count > 0 THEN before.error_count - 1 ELSE 0
         ]_vars

\* C13 witness: two completions succeeded with the same key and model on
\* one day, the first decaying the error count from 0 (it stays 0), the
\* record counting both requests and their tokens.
C13_Witness ==
    \E k \in Keys, m \in Models :
        /\ \A r \in Requests :
              pc[r] = "done" /\ result[r] = "ok" /\ api_key[r] = k /\ model[r] = m
        /\ quotas[k, m].requests_today = NumRequests
        /\ quotas[k, m].tokens_today = NumRequests * MaxTokens
        /\ quotas[k, m].error_count = 0

\* C14: a stored record whose reset date changes in a step is the record
\* after the daily reset (both counters 0, exhaustion timestamp cleared,
\* reset date today, error count max(0, old - 5), invalid flag and last
\* error text as before), followed by the bookkeeping of the request that
\* fetched it, if the step is the end of an upstream call; the record stays
\* in the table, and a record dated today keeps its date.
C14_ResetDecaysErrorsKeepsRecord ==
    [][ \A km \in Keys \X Models :
          quotas[km].exists =>
              /\ quotas'[km].exists
              /\ quotas[km].last_reset_date = PacificDate(now)
                    => quotas'[km].last_reset_date = quotas[km].last_reset_date
              /\ quotas'[km].last_reset_date # quotas[km].last_reset_date =>
                    LET reset == AfterDailyReset(quotas[km], PacificDate(now))
                    IN  \/ quotas'[km] = reset
                        \/ \E r \in Requests :
                              /\ CallSucceeds(r)
                              /\ \E tokens \in Tokens :
                                    quotas'[km] =
                                        [ reset EXCEPT
                                            !.requests_today = 1,
                                            !.tokens_today = tokens,
                                            !.error_count = IF @ > 0 THEN @ - 1 ELSE 0 ]
                        \/ \E r \in Requests :
                              /\ CallFails(r)
                              /\ \/ quotas'[km] = [ reset EXCEPT !.invalid_key = TRUE ]
                                 \/ \E stamp \in { reset.quota_exhausted_at, now } :
                                       quotas'[km] =
                                           [ reset EXCEPT
                                               !.error_count = @ + 1,
                                               !.last_error = last_failure'[km].error,
                                               !.quota_exhausted_at = stamp ]
      ]_vars

\* C14 witness: a record that stood at the daily limit with a 429 stamp and
\* 21 errors was reset on the next day: counters 0, stamp cleared, 16
\* errors, the last error text still there.
C14_Witness ==
    \E k \in Keys, m \in Models :
        /\ quotas[k, m].exists
        /\ quotas[k, m].last_reset_date = PacificDate(now)
        /\ PacificDate(now) # PacificDate(StartTime)
        /\ quotas[k, m].requests_today = 0
        /\ quotas[k, m].quota_exhausted_at = None
        /\ quotas[k, m].last_error = ErrQuotaExhausted
        /\ quotas[k, m].error_count = MaxErrorCount + 1 - ResetErrorDecay

\* C15: a key that the daily ceiling or a 429 excluded for a model on an
\* earlier Pacific date, that is not flagged invalid and whose error count
\* less 5 is at most 20, is eligible in any selection for the model on a
\* later date, however short the time since: selection returns a key, the
\* key's record counts 0 requests, and the key returned is that key or a
\* smaller one.
C15_EligibleAgainOnNextPacificDate ==
    [][ \A r \in Requests, k \in Keys :
          LET row == quotas[k, model'[r]]
          IN  ( /\ Selects(r)
                /\ row.exists
                /\ row.last_reset_date < PacificDate(now)
                /\ \/ row.requests_today >= max_requests_per_day
                   \/ row.last_error = ErrQuotaExhausted /\ row.quota_exhausted_at # None
                /\ ~row.invalid_key
                /\ row.error_count - ResetErrorDecay <= MaxErrorCount )
              => /\ api_key'[r] # None
                 /\ api_key'[r] <= k
                 /\ quotas'[k, model'[r]].requests_today = 0
      ]_vars

\* C15 witness: a key failed with a 429 in the last second of a Pacific day
\* and was selected again for the model after midnight, less than an hour
\* later.
C15_Witness ==
    \E r, first \in Requests, k \in Keys :
        /\ pc[r] = "calling" /\ api_key[r] = k
        /\ pc[first] = "done" /\ result[first] = "quota_error" /\ api_key[first] = k
        /\ model[r] = model[first]
        /\ last_failure[k, model[r]].error = ErrQuotaExhausted
        /\ last_failure[k, model[r]].at = Midnight - 1
        /\ PacificDate(now) = PacificDate(Midnight)
        /\ now - last_failure[k, model[r]].at < CooldownUnits
        /\ quotas[k, model[r]].last_reset_date = PacificDate(now)

\* C16: for every key and model, whatever the interleaving of the
\* requests, the daily request count of the record is the number of
\* completions that succeeded with them on the current Pacific date and
\* its token count is the sum of their tokens (counting what the table
\* held at the start): no update is lost or overwritten.
C16_CountsEqualSuccessesAndTokens ==
    \A km \in Keys \X Models :
        LET today == PacificDate(now)
            row == quotas[km]
            current == row.exists /\ row.last_reset_date = today
        IN  /\ (IF current THEN row.requests_today ELSE 0)
                  = (IF tally[km].date = today THEN tally[km].requests ELSE 0)
            /\ (IF current THEN row.tokens_today ELSE 0)
                  = (IF tally[km].date = today THEN tally[km].tokens ELSE 0)

\* C16 witness: two requests were under way at the same time with one key
\* and model (the funnel is off), both succeeded, and the record counts
\* both and the tokens of both.
C16_Witness ==
    \E k \in Keys, m \in Models :
        /\ ~enabled
        /\ \A r \in Requests :
              pc[r] = "done" /\ result[r] = "ok" /\ api_key[r] = k /\ model[r] = m
        /\ calls[k, m, PacificDate(now)] = NumRequests
        /\ tally[k, m] = [ date |-> PacificDate(now), requests |-> NumRequests,
                            tokens |-> NumRequests * MaxTokens ]
        /\ quotas[k, m].requests_today = NumRequests
        /\ quotas[k, m].tokens_today = NumRequests * MaxTokens

\* C17 (as claimed): a failed write to the quota store never leaves
\* generate_completion as an exception the adapter did not wrap, and a key
\* whose record a write failed for is not selected for that model again.
C17_StoreWriteFailureFailsClosed ==
    /\ [](\A r \in Requests : result[r] # "escaped")
    /\ [][ \A r \in Requests :
             (Selects(r) /\ api_key'[r] # None) =>
                 << api_key'[r], model'[r] >> \notin write_failed
         ]_vars

\* The data of the messages whose delimiter upstream has delivered, the
\* terminator and anything after it left out.
RECURSIVE BeforeTerminator(_)
BeforeTerminator(messages) ==
    IF messages = << >> \/ Head(messages) = DoneMarker THEN << >>
    ELSE << Head(messages) >> \o BeforeTerminator(Tail(messages))
CompleteMessages ==
    BeforeTerminator(SubSeq(upstream_messages, 1, delivered \div MessageLen))

\* What the terminator becomes in a dialect, and the data of the other
\* things yielded, in the order of their yield.
TerminatorOutput ==
    IF dialect = "openai" THEN SseMessage(DoneMarker) ELSE OllamaLine("", "done:true")
RECURSIVE ForwardedData(_)
ForwardedData(out) ==
    IF out = << >> THEN << >>
    ELSE IF Head(out) = TerminatorOutput THEN ForwardedData(Tail(out))
    ELSE << (IF dialect = "openai" THEN Head(out)[Len(DataPrefix) + 2] ELSE Head(out)[2]) >>
             \o ForwardedData(Tail(out))

\* C18 (as claimed): at every moment of a streaming response, whatever the
\* chunks, the data messages forwarded to the client are exactly the
\* complete data messages upstream has delivered before the terminator,
\* each once and in upstream order.
C18_EveryMessageForwardedOnceInOrder ==
    ForwardedData(yielded) = CompleteMessages

\* C19 (as claimed): once upstream has delivered the terminator, the last
\* thing yielded is the terminator's output (data: [DONE] unchanged for
\* OpenAI, the done = true line for Ollama), and nothing is ever yielded
\* after a terminator's output.
C19_TerminatorForwardedAndLast ==
    /\ ( /\ upstream_messages # << >>
         /\ upstream_messages[Len(upstream_messages)] = DoneMarker
         /\ delivered = Len(UpstreamStream(upstream_messages)) )
       => ( /\ yielded # << >>
            /\ yielded[Len(yielded)] = TerminatorOutput
            /\ generator = "returned" )
    /\ \A i \in 1..Len(yielded) : yielded[i] = TerminatorOutput => i = Len(yielded)

\* C20 (as claimed): every request to a completion endpoint ends with a
\* response of the handler and no exception leaves the handler; the
\* response is 400 for a malformed body, 502 upstream_connection_failed
\* when upstream is unreachable, 504 on an upstream timeout and 500
\* proxy_error for any other fault of the upstream call.
C20_EveryRequestClassified ==
    handler = "done" =>
        /\ raised = NoException
        /\ response # NoResponse
        /\ payload.kind = "malformed" => response.status = StatusBadRequest
        /\ upstream_outcome = "connect_error" =>
              response = JsonResponse(StatusBadGateway, "upstream_connection_failed")
        /\ upstream_outcome = "timeout" => response.status = StatusGatewayTimeout
        /\ upstream_outcome = "other_error" =>
              response = JsonResponse(StatusInternalError, "proxy_error")

\* The body is a JSON object that lacks a field the endpoint requires:
\* model, and messages (chat endpoints) or prompt (completion endpoints).
MissingRequiredField ==
    /\ payload.kind = "object"
    /\ \/ payload.fields.model = "absent"
       \/ path \in { "/v1/chat/completions", "/api/chat" }
             /\ payload.fields.messages = "absent"
       \/ path \in { "/v1/completions", "/api/generate" }
             /\ payload.fields.prompt = "absent"

\* C21 (as claimed): a request whose JSON body lacks a required field is
\* never forwarded upstream, and it ends with a 4xx response of the
\* handler.
C21_MissingFieldRejectedNotForwarded ==
    MissingRequiredField =>
        /\ handler # "awaiting_upstream"
        /\ upstream_outcome = "none"
        /\ handler = "done" =>
              /\ raised = NoException
              /\ response.status >= StatusBadRequest
              /\ response.status < StatusInternalError

\* A complete paired block: an opening marker followed later by a closing one.
HasPairedBlock(s) ==
    \E i \in 1..Len(s) :
        /\ OccursAt(s, OpenMarker, i)
        /\ \E j \in (i + Len(OpenMarker))..Len(s) : OccursAt(s, CloseMarker, j)

\* C22 (as claimed): applying the stripper to its own result changes
\* nothing: strip(strip(x)) = strip(x) for every text x.
C22_StripperIdempotent ==
    Len(passes) = MaxPasses => passes[2] = passes[1]

\* C23 (as claimed): the result of the stripper holds no complete paired
\* block, that is no opening marker followed later by a closing marker.
C23_NoPairedBlockInOutput ==
    Len(passes) >= 1 => ~HasPairedBlock(passes[1])

\* The table without the patterns re cannot compile.
RECURSIVE WellFormedEntries(_)
WellFormedEntries(table) ==
    IF table = << >> THEN << >>
    ELSE IF Head(table).kind = "malformed" THEN WellFormedEntries(Tail(table))
    ELSE << Head(table) >> \o WellFormedEntries(Tail(table))
LiteralKey == \E i \in 1..Len(MODEL_MAP) :
    MODEL_MAP[i].kind = "literal" /\ MODEL_MAP[i].key = requested
PatternMatches == \E i \in 1..Len(MODEL_MAP) :
    MODEL_MAP[i].kind = "regex" /\ requested \in MODEL_MAP[i].matches

\* C24 (as claimed): a pattern of the table that cannot be compiled is
\* skipped: rewrite_model raises nothing, and returns what the other entries
\* of the table (or the fallback to the name itself) give.
C24_MalformedPatternSkipped ==
    rewritten.called =>
        /\ rewritten.raised = NoException
        /\ rewritten = rewrite_model(requested, WellFormedEntries(MODEL_MAP))

\* C25 (as claimed): a model name that is a literal key of the table is
\* rewritten to the target of that key, whatever patterns also match it and
\* wherever they stand in the table; a name that no literal key and no
\* pattern matches is returned unchanged.
C25_ExactMatchFirstElseIdentity ==
    rewritten.called =>
        /\ \A i \in 1..Len(MODEL_MAP) :
               MODEL_MAP[i].kind = "literal" /\ MODEL_MAP[i].key = requested
               => rewritten = Returned(MODEL_MAP[i].target)
        /\ ~LiteralKey /\ ~PatternMatches => rewritten = Returned(requested)

\* The steps of a request in the order of the claim.
StepOrder == << "rewrite", "no_think", "forward", "strip" >>
StepRank(step) == CHOOSE i \in 1..Len(StepOrder) : StepOrder[i] = step
StepsInOrder ==
    \A i, j \in 1..Len(steps) : i < j => StepRank(steps[i]) < StepRank(steps[j])

\* C26 (as claimed): the steps of a request happen in the order rewrite,
\* no-think directive, forward, strip; the payload sent upstream carries
\* the rewritten model and, when DISABLE_THINKING is set, the /no_think
\* directive; only content received from upstream is stripped.
C26_StepsOrderedPayloadTransformed ==
    /\ StepsInOrder
    /\ forwarded.sent =>
          /\ payload.fields.model # "absent" => forwarded.model = "rewritten"
          /\ DISABLE_THINKING => forwarded.no_think
    /\ (\E i \in 1..Len(steps) : steps[i] = "strip") => upstream_outcome = "response"

\* The upstream call failed: with a timeout, with a connection failure,
\* with an HTTP error status whose body is JSON, or otherwise.
UpstreamFailed == adapter = "done" /\ RaisedInTry(post_outcome) # NoException
TimedOut == UpstreamFailed /\ IsInstance(post_outcome.exception, "TimeoutException")
ConnectionFailed == UpstreamFailed /\ post_outcome.exception = "ConnectError"
UpstreamErrorBody ==
    UpstreamFailed /\ RaisedInTry(post_outcome) = "HTTPStatusError" /\ post_outcome.json
ErrorTypes == { "timeout_error", "connection_error", "api_error" }

PolicyNames == { "authorization", "openai-organization", "openai-project" }
PolicyHeaders == { h \in client_headers : lower(h[1]) \in PolicyNames }

\* C28 (as claimed): the headers sent upstream are those that the client's
\* Authorization, organization and project headers and the configured key
\* give: a request with the other client headers removed sends the same.
C28_OnlyPolicyHeadersForwarded ==
    adapter # "called" =>
        sent_headers = MergeClientHeaders(get_headers(config_api_key), PolicyHeaders)

\* C29 (as claimed): a configuration error makes startup fail: the
\* serving state is not reached with an invalid URL, nor with an enabled
\* provider whose configuration is in error left out of the providers.
C29_ConfigurationErrorFailsStartup ==
    startup = "serving" =>
        /\ ~validate_url_raises(UPSTREAM_URL)
        /\ \A i \in 1..Len(providers_config) :
               providers_config[i].enabled => ~ProviderConfigFails(providers_config[i])

\* C30: while rate limiting is disabled, no step changes the state of the
\* funnel or grants a slot, no request ever waits for the window or for
\* the semaphore, and a request that has a key goes straight from its
\* arrival to the upstream call, however many requests are under way.
C30_DisabledFunnelIsNoOp ==
    [][ ~enabled =>
          /\ UNCHANGED << funnelVars, grants, acquired, released >>
          /\ \A r \in Requests :
                /\ pc'[r] \notin { "window_wait", "semaphore_wait" }
                /\ pc[r] = "idle" /\ pc'[r] # "idle" /\ api_key'[r] # None
                   => pc'[r] = "calling" ]_vars

C30_Witness ==
    /\ ~enabled
    /\ \A r \in Requests : pc[r] = "calling"
    /\ Cardinality(Requests) > max_concurrent
    /\ semaphore = SemaphoreInit
    /\ active_count = 0
    /\ request_timestamps = << >>

\* The latest cache_models of a provider, not invalidated since, is less
\* than its TTL old.
Live(provider_id) ==
    /\ cache_history[provider_id].present
    /\ cache_now - cache_history[provider_id].cached_at
         < cache_history[provider_id].ttl_seconds

\* C31: a get returns the models of the latest cache_models of its provider
\* until the TTL of that call has elapsed and None from then on; it returns
\* None for a provider never cached or invalidated; the no-op cache returns
\* None for every get; invalidating one provider leaves the entries of the
\* other providers unchanged.
C31_GetReturnsLiveEntryOnly ==
    [][ /\ cache_got'.n # cache_got.n =>
             cache_got'.result =
                 IF cache_variant = "inmemory" /\ Live(cache_got'.provider_id)
                 THEN cache_history[cache_got'.provider_id].data
                 ELSE NoModels
        /\ \A p \in CacheProviders :
              /\ cache_history[p].present
              /\ ~cache_history'[p].present
              /\ \A q \in CacheProviders \ { p } : cache_history'[q] = cache_history[q]
              => \A q \in CacheProviders \ { p } : cache_entries'[q] = cache_entries[q] ]_vars

\* A get at the very instant the TTL has elapsed returned None, and the
\* entry of the other provider is still there after an invalidation.
C31_Witness ==
    /\ cache_variant = "inmemory"
    /\ cache_got.provider_id = "provider1"
    /\ cache_got.result = NoModels
    /\ cache_history["provider1"].present
    /\ cache_now - cache_history["provider1"].cached_at
         = cache_history["provider1"].ttl_seconds
    /\ cache_entries["provider2"].present

\* C32 (as claimed): a key that a recorded 429 excludes for a model stays
\* excluded for that model, as long as the hour and the Pacific date of the
\* 429 last, whatever outcome of another request is recorded for that key
\* and model in between.
C32_Recent429ExclusionSurvivesOtherOutcomes ==
    [][ \A k \in Keys, m \in Models :
          /\ now' = now
          /\ quotas[k, m].exists
          /\ RecentQuotaError(quotas[k, m], now)
          => KeyClass(get_or_create_quota(quotas'[k, m], PacificDate(now)), now)
                 # "available" ]_vars

\* C33 (as claimed): an upstream call that fails with a regular error
\* (neither an invalid-key error nor a quota exhaustion) adds one to the
\* daily request count of the record of its key and model, as a successful
\* call does.
C33_RegularFailureCountsRequest ==
    [][ \A r \in Requests :
          /\ CallFails(r)
          /\ last_failure'[api_key[r], model[r]].error = ErrOther
          => LET k == api_key[r]
                 m == model[r]
                 before == RecordToday(quotas[k, m], PacificDate(now))
             IN  quotas'[k, m].requests_today = before.requests_today + 1
      ]_vars

\* The position of a request in generate_completion, in program order.
PhaseRank(phase) ==
    CASE phase = "idle" -> 0
      [] phase = "window_wait" -> 1
      [] phase = "semaphore_wait" -> 2
      [] phase = "calling" -> 3
      [] phase = "done" -> 4

\* C34: a completion request keeps the one key it selected, moves forward
\* only, and dispatches at most one upstream call: a step that adds an
\* upstream call adds exactly one, for a request that had not reached its
\* call yet, and a request whose call has ended, with a response or with an
\* error (a 429 included), is done: it selects no other key and dispatches
\* nothing more.
C34_OneKeyOneCallNoRetry ==
    [][ /\ \A r \in Requests :
              /\ api_key[r] # None => api_key'[r] = api_key[r]
              /\ PhaseRank(pc'[r]) >= PhaseRank(pc[r])
              /\ pc[r] = "calling" /\ pc'[r] # "calling" =>
                     /\ pc'[r] = "done"
                     /\ result'[r] \in { "ok", "error", "quota_error" }
                     /\ calls' = calls
        /\ calls' # calls =>
              \E r \in Requests :
                  /\ PhaseRank(pc[r]) < PhaseRank("calling")
                  /\ pc'[r] = "calling"
                  /\ api_key'[r] # None
                  /\ calls' = [ calls EXCEPT
                                  ![api_key'[r], model'[r], PacificDate(now)] = @ + 1 ]
                  /\ \A other \in Requests \ { r } : pc'[other] = pc[other]
      ]_vars

\* C34 witness: the only request that arrived failed with a 429 for its
\* key while another key is still eligible for its model; one upstream call
\* was dispatched in all and the request is done.
C34_Witness ==
    \E r \in Requests :
        /\ pc[r] = "done"
        /\ result[r] = "quota_error"
        /\ api_key[r] # None
        /\ last_failure[api_key[r], model[r]].error = ErrQuotaExhausted
        /\ Survivors(model[r], now) \ { api_key[r] } # { }
        /\ \A other \in Requests \ { r } : pc[other] = "idle"
        /\ \A kmd \in Keys \X Models \X Dates :
              calls[kmd] = IF kmd = << api_key[r], model[r], PacificDate(now) >>
                           THEN 1 ELSE 0

\* A caller is blocked in acquire_slot; it has been granted its slot.
Blocked(c) == caller[c] \in { "window_wait", "semaphore_wait" }
Granted(c) == caller[c] = "holding"

\* C35 (as claimed): with the funnel enabled, with time advancing and every
\* granted slot released, every caller blocked in acquire_slot is
\* eventually granted a slot, even while other callers keep arriving.
C35_BlockedCallerEventuallyGranted ==
    \A c \in Callers : Blocked(c) ~> Granted(c)

\* C36 (as claimed): with stripping enabled, once every delta of a content
\* has been delivered, the concatenation of the delivered delta contents is
\* the content of the non-streamed response for the same upstream content.
C36_StreamedTextEqualsNonStreamed ==
    /\ Len(streamed) = Len(content_deltas)
    /\ non_streamed.responded
    => Concat(streamed) = non_streamed.content

\* C37 (as claimed): in the streaming path the upstream connection is
\* closed only when the generator has forwarded the last upstream chunk or
\* the client has disconnected; the return of the handler does not close it.
C37_UpstreamOpenUntilLastChunkForwarded ==
    upstream_connection = "closed" =>
        \/ body_iterator = "finished" /\ chunks_forwarded = upstream_chunks
        \/ client_connection = "disconnected"

\* The done field of a line of the Ollama stream.
DoneField(line) == line[3]

\* C38 (as claimed): when the generator of an Ollama-dialect streaming
\* response has ended, the lines it yielded end with one line whose done
\* field is true, and every earlier line has done = false, whether or not
\* the upstream stream ended with the [DONE] terminator.
C38_OllamaStreamEndsWithOneDoneLine ==
    /\ dialect = "ollama"
    /\ generator \in { "returned", "exhausted" }
    => /\ yielded # << >>
       /\ DoneField(yielded[Len(yielded)]) = "done:true"
       /\ \A i \in 1..(Len(yielded) - 1) : DoneField(yielded[i]) = "done:false"

====
